---- MODULE Spec2Model ----
(***************************************************************************)
(* Model of the codebase-ai indexing backend (src/backend): the structural *)
(* chunker, the summarizer with its fallback, and the process_project      *)
(* pipeline writing to the metadata store (PostgreSQL) and the vector      *)
(* index (Qdrant).                                                         *)
(*                                                                         *)
(* Python values are represented as follows.  A str on which the code does *)
(* string work (code, summary, language, chunk_type, function_name) is a   *)
(* sequence of one-character strings; the backtick character is the atom   *)
(* "BQ".  An Optional value is <<>> for None and <<v>> for a value v.  A   *)
(* UUID is a natural number; str(uuid) is UuidStr.                         *)
(***************************************************************************)
EXTENDS Integers, Sequences, FiniteSets, TLC

VARIABLES
    llm_provider,   \* settings.llm_provider
    projects,       \* rows of table projects: the set of project_id
    files,          \* rows of table files: project_id -> File rows ordered by file_path
    disk,           \* workspace: <<project_id, file_path>> -> Optional text
    chunks,         \* rows of table chunks: chunk_id -> Chunk row
    vectors,        \* Qdrant collection: point id -> point
    rq,             \* per request slot: the locals of the request the slot handles
    received,       \* the number of requests received so far (process_project
                    \* runs, or create_file calls in SpecFiles, where it is the clock)
    sumCall,        \* one call of CodeSummarizer.summarize_code: inputs and result
    chunkCall,      \* CodeChunker.chunk_file called twice on the same inputs: inputs and results
    endCall,        \* one call of CodeChunker._get_end_line: the node and the result
    supported_languages  \* CodeChunker.supported_languages of the global chunker

vars == <<llm_provider, projects, files, disk, chunks, vectors, rq, received, sumCall, chunkCall, endCall, supported_languages>>

-----------------------------------------------------------------------------
(* Optional values *)

None == <<>>

Some(v) == <<v>>

IsNone(o) == o = <<>>

Get(o) == o[1]

-----------------------------------------------------------------------------
(* Python str operations used by the code *)

NL == "\n"

LowerChars ==
    <<"a","b","c","d","e","f","g","h","i","j","k","l","m","n","o","p","q","r","s","t","u","v","w","x","y","z">>

UpperChars ==
    <<"A","B","C","D","E","F","G","H","I","J","K","L","M","N","O","P","Q","R","S","T","U","V","W","X","Y","Z">>

IsLower(c) == \E i \in 1..Len(LowerChars) : LowerChars[i] = c

IsUpper(c) == \E i \in 1..Len(UpperChars) : UpperChars[i] = c

IsCased(c) == IsLower(c) \/ IsUpper(c)

ToUpper(c) ==
    IF IsLower(c) THEN UpperChars[CHOOSE i \in 1..Len(LowerChars) : LowerChars[i] = c] ELSE c

ToLower(c) ==
    IF IsUpper(c) THEN LowerChars[CHOOSE i \in 1..Len(UpperChars) : UpperChars[i] = c] ELSE c

\* str.isspace for the characters of the model
IsSpace(c) == c \in {" ", NL, "\t", "\r"}

\* str.title(): the first cased character of each run of cased characters is
\* upper-cased, the others lower-cased
Title(s) ==
    [i \in 1..Len(s) |->
        IF ~IsCased(s[i]) THEN s[i]
        ELSE IF i > 1 /\ IsCased(s[i-1]) THEN ToLower(s[i]) ELSE ToUpper(s[i])]

RECURSIVE LStrip(_)
\* str.lstrip()
LStrip(s) == IF s # <<>> /\ IsSpace(s[1]) THEN LStrip(Tail(s)) ELSE s

RECURSIVE RStrip(_)
\* str.rstrip()
RStrip(s) ==
    IF s # <<>> /\ IsSpace(s[Len(s)]) THEN RStrip(SubSeq(s, 1, Len(s) - 1)) ELSE s

\* str.strip()
PyStrip(s) == RStrip(LStrip(s))

\* the index of the first whitespace character of s, Len(s) + 1 if there is none
FirstSpace(s) ==
    IF \E i \in 1..Len(s) : IsSpace(s[i])
    THEN CHOOSE i \in 1..Len(s) : IsSpace(s[i]) /\ \A j \in 1..(i-1) : ~IsSpace(s[j])
    ELSE Len(s) + 1

RECURSIVE PySplit(_)
\* str.split(): the words separated by runs of whitespace
PySplit(s) ==
    LET t == LStrip(s)
        e == FirstSpace(t)
    IN  IF t = <<>> THEN <<>>
        ELSE <<SubSeq(t, 1, e - 1)>> \o PySplit(SubSeq(t, e + 1, Len(t)))

\* the index of the first sep in s, Len(s) + 1 if there is none
FirstSep(s, sep) ==
    IF \E i \in 1..Len(s) : s[i] = sep
    THEN CHOOSE i \in 1..Len(s) : s[i] = sep /\ \A j \in 1..(i-1) : s[j] # sep
    ELSE Len(s) + 1

RECURSIVE PySplitOn(_, _)
\* str.split(sep) for a one-character separator: empty pieces are kept
PySplitOn(s, sep) ==
    LET e == FirstSep(s, sep)
    IN  IF e > Len(s) THEN <<s>>
        ELSE <<SubSeq(s, 1, e - 1)>> \o PySplitOn(SubSeq(s, e + 1, Len(s)), sep)

RECURSIVE PyJoin(_, _)
\* sep.join(parts)
PyJoin(sep, parts) ==
    IF parts = <<>> THEN <<>>
    ELSE IF Len(parts) = 1 THEN parts[1]
    ELSE parts[1] \o <<sep>> \o PyJoin(sep, Tail(parts))

\* list[lo:hi] for 0 <= lo, 0 <= hi: out-of-range ends are clamped
PySlice(l, lo, hi) ==
    LET h == IF hi > Len(l) THEN Len(l) ELSE hi
    IN  IF lo >= h THEN <<>> ELSE SubSeq(l, lo + 1, h)

\* str.startswith(p)
StartsWith(s, p) == Len(s) >= Len(p) /\ SubSeq(s, 1, Len(p)) = p

RECURSIVE RemoveAll(_, _)
\* str.replace(pat, ""): leftmost non-overlapping occurrences are removed
RemoveAll(s, pat) ==
    IF s = <<>> THEN <<>>
    ELSE IF StartsWith(s, pat) THEN RemoveAll(SubSeq(s, Len(pat) + 1, Len(s)), pat)
    ELSE <<s[1]>> \o RemoveAll(Tail(s), pat)

-----------------------------------------------------------------------------
(* Literals of the code *)

KindFunction == <<"f","u","n","c","t","i","o","n">>

KindClass == <<"c","l","a","s","s">>

KindModule == <<"m","o","d","u","l","e">>

KindFile == <<"f","i","l","e">>

LangPython == <<"p","y","t","h","o","n">>

LangGo == <<"g","o">>

-----------------------------------------------------------------------------
(* summarizer.py *)

LlmModel == "codellama-q"

\* _create_combined_text: f"{summary}\n\n{code}"
create_combined_text(summary, code) == summary \o <<NL, NL>> \o code

\* _clean_summary
clean_summary(summary) ==
    LET s1 == RemoveAll(RemoveAll(summary, <<"BQ", "BQ", "BQ">>), <<"BQ">>)
        s2 == IF ~StartsWith(s1, <<"#">>) THEN <<"#", " ">> \o s1 ELSE s1
    IN  PyStrip(s2)

\* The replies of the Ollama collaborator to the POST of _summarize_with_ollama.
\* kind "http": a response arrived, with its status code and, for the JSON
\* body, the value under "response" (None: key missing; <<text>>: a string).
\* kind "badbody": status 200 whose body is not a JSON object with a string
\* under "response".  The other kinds are httpx exceptions.
HttpReply(status, response) == [kind |-> "http", status |-> status, response |-> response]

FailReply(kind) == [kind |-> kind, status |-> 0, response |-> None]

ReplyPlain == <<"a","d","d","s"," ","t","w","o"," ","n","u","m","b","e","r","s"," ">>

ReplyHash == <<"#"," ","s","u","m",NL>>

ReplyQuoted == <<"BQ","BQ","BQ","s","u","m","BQ","BQ","BQ">>

FailureReplies ==
    {FailReply("timeout"), FailReply("unreachable"), FailReply("badbody"),
     HttpReply(500, None), HttpReply(404, None)}

SuccessReplies ==
    {HttpReply(200, Some(ReplyPlain)), HttpReply(200, Some(ReplyHash)),
     HttpReply(200, Some(ReplyQuoted)), HttpReply(200, None)}

IsFailure(reply) == ~(reply.kind = "http" /\ reply.status = 200)

\* the except branch of _summarize_with_ollama (the fallback summary)
fallback_result_no_name(code, language, chunk_type, function_name) ==
    LET fallback_summary == <<"#", " ">> \o Title(chunk_type) \o <<" ", "i", "n", " ">> \o language
    IN  [summary  |-> fallback_summary,
         combined |-> create_combined_text(fallback_summary, code),
         tokens   |-> Len(PySplit(code)) + Len(PySplit(fallback_summary)),
         model    |-> "fallback"]

fallback_result(code, language, chunk_type, function_name) ==
    LET s0 == <<"#", " ">> \o Title(chunk_type)
        s1 == IF ~IsNone(function_name) /\ Get(function_name) # <<>>
              THEN s0 \o <<" ">> \o Get(function_name) ELSE s0
        fallback_summary == s1 \o <<" ", "i", "n", " ">> \o language
    IN  [summary  |-> fallback_summary,
         combined |-> create_combined_text(fallback_summary, code),
         tokens   |-> Len(PySplit(code)) + Len(PySplit(fallback_summary)),
         model    |-> "fallback"]

\* the status-200 branch of _summarize_with_ollama
success_result(code, reply) ==
    LET raw     == IF IsNone(reply.response) THEN <<>> ELSE Get(reply.response)
        summary == clean_summary(PyStrip(raw))
    IN  [summary  |-> summary,
         combined |-> create_combined_text(summary, code),
         tokens   |-> Len(PySplit(code)) + Len(PySplit(summary)),
         model    |-> LlmModel]

\* _summarize_with_ollama: every exception of the try block, the raise for a
\* non-200 status included, ends in the fallback
summarize_with_ollama_propagating(code, language, chunk_type, function_name, reply) ==
    IF reply.kind = "http" /\ reply.status = 200
    THEN [raised |-> FALSE, value |-> Some(success_result(code, reply))]
    ELSE IF reply.kind = "http"
    THEN [raised |-> FALSE, value |-> Some(fallback_result(code, language, chunk_type, function_name))]
    ELSE [raised |-> TRUE, value |-> None]

summarize_with_ollama(code, language, chunk_type, function_name, reply) ==
    IF reply.kind = "http" /\ reply.status = 200
    THEN [raised |-> FALSE, value |-> Some(success_result(code, reply))]
    ELSE [raised |-> FALSE, value |-> Some(fallback_result(code, language, chunk_type, function_name))]

\* summarize_code: ValueError for a provider other than "ollama"
summarize_code(provider, code, language, chunk_type, function_name, reply) ==
    IF provider = "ollama"
    THEN summarize_with_ollama(code, language, chunk_type, function_name, reply)
    ELSE [raised |-> TRUE, value |-> None]

-----------------------------------------------------------------------------
(* UUIDs *)

\* str(uuid)
UuidStr(u) == "uuid-" \o ToString(u)

\* project ids of the model: 101 and 102 have a Project row, 103 has none
ProjectIds == {101, 102, 103}

-----------------------------------------------------------------------------
(* chunker.py *)

\* The file texts of the model.
\* ScenarioAText is the text of end-to-end scenario A (foo, Bar, Bar.baz).
ScenarioAText ==
    <<"d","e","f"," ","f","o","o","(",")",":",NL," "," "," "," ","r","e","t","u","r","n"," ","1",NL,NL,"c","l","a","s","s"," ","B","a","r",":",NL," "," "," "," ","d","e","f"," ","b","a","z","(","s","e","l","f",")",":",NL," "," "," "," "," "," "," "," ","r","e","t","u","r","n"," ","2",NL>>

ModuleOnlyText == <<"x"," ","="," ","1">>

MalformedText == <<"d","e","f"," ","(">>

AsyncOnlyText ==
    <<"a","s","y","n","c"," ","d","e","f"," ","f","(",")",":",NL," ","p","a","s","s">>

\* Abbreviates the expression x+x+...+x of 100000 terms, whose nesting is
\* deeper than the recursion limit of CPython's ast construction.
DeepExprText == <<"x","+","x","+","x">>

GoText == <<"f","u","n","c"," ","m","a","i","n","(",")"," ","{","}">>

EmptyText == <<>>

Texts ==
    {ScenarioAText, ModuleOnlyText, MalformedText, AsyncOnlyText, DeepExprText,
     GoText, EmptyText}

\* a node of the syntax tree as the chunker reads it: the class of the node,
\* node.name, node.lineno and node.end_lineno (None: the attribute is missing)
Node(type, name, lineno, end_lineno) ==
    [type |-> type, name |-> name, lineno |-> lineno, end_lineno |-> end_lineno]

Other(type) == Node(type, <<>>, 0, None)

Tree(nodes) == [outcome |-> "tree", walk |-> nodes]

ParseError(exception) == [outcome |-> exception, walk |-> <<>>]

\* ast.parse(file_content) followed by ast.walk(tree): what CPython 3.11
\* answers for the texts of the model; walk lists the nodes in the
\* breadth-first order of ast.walk.  A text that is not Python (GoText) is a
\* SyntaxError.
ast_parse(file_content) ==
    CASE file_content = ScenarioAText ->
            Tree(<<Other("Module"),
                   Node("FunctionDef", <<"f","o","o">>, 1, Some(2)),
                   Node("ClassDef", <<"B","a","r">>, 4, Some(6)),
                   Other("arguments"), Other("Return"),
                   Node("FunctionDef", <<"b","a","z">>, 5, Some(6)),
                   Other("Constant"), Other("arguments"), Other("Return"),
                   Other("arg"), Other("Constant")>>)
      [] file_content = ModuleOnlyText ->
            Tree(<<Other("Module"), Other("Assign"), Other("Name"),
                   Other("Constant"), Other("Store")>>)
      [] file_content = AsyncOnlyText ->
            Tree(<<Other("Module"), Node("AsyncFunctionDef", <<"f">>, 1, Some(2)),
                   Other("arguments"), Other("Pass")>>)
      [] file_content = EmptyText -> Tree(<<Other("Module")>>)
      [] file_content = DeepExprText -> ParseError("RecursionError")
      [] OTHER -> ParseError("SyntaxError")

\* UUID(text): the pydantic coercion of a str given for a UUID field
UuidParse(text) == CHOOSE u \in ProjectIds : UuidStr(u) = text

\* models/chunk.py ChunkCreate; project_id arrives as str and is coerced
ChunkCreate(project_id, function_name, file_path, language, chunk_type, code) ==
    [project_id    |-> UuidParse(project_id),
     function_name |-> function_name,
     file_path     |-> file_path,
     language      |-> language,
     chunk_type    |-> chunk_type,
     code          |-> code]

get_end_line_one_line(node) ==
    IF ~IsNone(node.end_lineno) THEN Get(node.end_lineno) ELSE node.lineno

\* _get_end_line
get_end_line(node) ==
    IF ~IsNone(node.end_lineno) THEN Get(node.end_lineno) ELSE node.lineno + 1

\* _extract of the node's lines, common to _create_function_chunk and
\* _create_class_chunk
node_code(node, file_content) ==
    LET start_line == node.lineno - 1
        end_line   == get_end_line(node)
        lines      == PySplitOn(file_content, NL)
    IN  PyJoin(NL, PySlice(lines, start_line, end_line))

\* _create_function_chunk
create_function_chunk(node, file_path, file_content, project_id) ==
    ChunkCreate(project_id, Some(node.name), file_path, LangPython, KindFunction,
                node_code(node, file_content))

\* _create_class_chunk
create_class_chunk(node, file_path, file_content, project_id) ==
    ChunkCreate(project_id, Some(node.name), file_path, LangPython, KindClass,
                node_code(node, file_content))

RECURSIVE walk_chunks(_, _, _, _)
\* the for loop of _chunk_python_file over ast.walk(tree)
walk_chunks(nodes, file_path, file_content, project_id) ==
    IF nodes = <<>> THEN <<>>
    ELSE LET node == Head(nodes)
             rest == walk_chunks(Tail(nodes), file_path, file_content, project_id)
         IN  IF node.type = "FunctionDef"
             THEN <<create_function_chunk(node, file_path, file_content, project_id)>> \o rest
             ELSE IF node.type = "ClassDef"
             THEN <<create_class_chunk(node, file_path, file_content, project_id)>> \o rest
             ELSE rest

\* the result of a call: the returned value, or the exception that left it
Returned(v) == [raised |-> FALSE, value |-> Some(v)]

Raised == [raised |-> TRUE, value |-> None]

chunk_python_file_with_module(file_path, file_content, project_id) ==
    LET parsed == ast_parse(file_content)
    IN  IF parsed.outcome = "tree"
        THEN Returned(walk_chunks(parsed.walk, file_path, file_content, project_id)
                      \o <<ChunkCreate(project_id, None, file_path, LangPython,
                                       KindModule, file_content)>>)
        ELSE IF parsed.outcome = "SyntaxError"
        THEN Returned(<<ChunkCreate(project_id, None, file_path, LangPython,
                                    KindFile, file_content)>>)
        ELSE Raised

\* _chunk_python_file: only SyntaxError is caught
chunk_python_file(file_path, file_content, project_id) ==
    LET parsed == ast_parse(file_content)
    IN  IF parsed.outcome = "tree"
        THEN LET found == walk_chunks(parsed.walk, file_path, file_content, project_id)
             IN  IF found = <<>>
                 THEN Returned(<<ChunkCreate(project_id, None, file_path, LangPython,
                                             KindModule, file_content)>>)
                 ELSE Returned(found)
        ELSE IF parsed.outcome = "SyntaxError"
        THEN Returned(<<ChunkCreate(project_id, None, file_path, LangPython,
                                    KindFile, file_content)>>)
        ELSE Raised

chunk_file_sniffing(file_path, file_content, language, project_id) ==
    IF language = LangPython \/ ast_parse(file_content).outcome = "tree"
    THEN chunk_python_file(file_path, file_content, project_id)
    ELSE Returned(<<ChunkCreate(project_id, None, file_path, language,
                                KindFile, file_content)>>)

\* chunk_file
chunk_file(file_path, file_content, language, project_id) ==
    IF language = LangPython
    THEN chunk_python_file(file_path, file_content, project_id)
    ELSE Returned(<<ChunkCreate(project_id, None, file_path, language,
                                KindFile, file_content)>>)

-----------------------------------------------------------------------------
(* db.py: the chunks table *)

\* create_chunk: INSERT ... RETURNING *; chunk_id is DEFAULT gen_random_uuid(),
\* modelled as the next unused number; tested is DEFAULT FALSE
\* INSERT INTO chunks (project_id, function_name, file_path, language,
\* chunk_type, code) ... RETURNING *: the other columns take their defaults
new_chunk_row_summarized(rows, chunk_data) ==
    [chunk_id      |-> Len(rows) + 1,
     project_id    |-> chunk_data.project_id,
     function_name |-> chunk_data.function_name,
     file_path     |-> chunk_data.file_path,
     language      |-> chunk_data.language,
     chunk_type    |-> chunk_data.chunk_type,
     code          |-> chunk_data.code,
     summary       |-> Some(chunk_data.code),
     combined      |-> None,
     tokens        |-> None,
     qdrant_id     |-> None,
     tested        |-> FALSE]

new_chunk_row(rows, chunk_data) ==
    [chunk_id      |-> Len(rows) + 1,
     project_id    |-> chunk_data.project_id,
     function_name |-> chunk_data.function_name,
     file_path     |-> chunk_data.file_path,
     language      |-> chunk_data.language,
     chunk_type    |-> chunk_data.chunk_type,
     code          |-> chunk_data.code,
     summary       |-> None,
     combined      |-> None,
     tokens        |-> None,
     qdrant_id     |-> None,
     tested        |-> FALSE]

\* create_chunk: a plain INSERT, the chunk_id drawn by gen_random_uuid()
create_chunk_if_absent(rows, chunk_data) ==
    IF \E i \in 1..Len(rows) :
           /\ rows[i].project_id = chunk_data.project_id
           /\ rows[i].file_path = chunk_data.file_path
           /\ rows[i].function_name = chunk_data.function_name
           /\ rows[i].code = chunk_data.code
    THEN rows
    ELSE Append(rows, new_chunk_row(rows, chunk_data))

create_chunk(rows, chunk_data) == Append(rows, new_chunk_row(rows, chunk_data))

\* update_chunk_summary: UPDATE chunks SET summary, combined, tokens WHERE chunk_id
update_chunk_summary_only_summary(rows, chunk_id, summary, combined, tokens) ==
    [i \in 1..Len(rows) |->
        IF rows[i].chunk_id = chunk_id
        THEN [rows[i] EXCEPT !.summary = Some(summary)]
        ELSE rows[i]]

update_chunk_summary(rows, chunk_id, summary, combined, tokens) ==
    [i \in 1..Len(rows) |->
        IF rows[i].chunk_id = chunk_id
        THEN [rows[i] EXCEPT !.summary = Some(summary), !.combined = Some(combined),
                             !.tokens = Some(tokens)]
        ELSE rows[i]]

update_chunk_embedding_every_row(rows, chunk_id, qdrant_id) ==
    [i \in 1..Len(rows) |-> [rows[i] EXCEPT !.qdrant_id = Some(qdrant_id)]]

\* update_chunk_embedding: UPDATE chunks SET qdrant_id WHERE chunk_id
update_chunk_embedding(rows, chunk_id, qdrant_id) ==
    [i \in 1..Len(rows) |->
        IF rows[i].chunk_id = chunk_id
        THEN [rows[i] EXCEPT !.qdrant_id = Some(qdrant_id)]
        ELSE rows[i]]

\* get_files_by_project: the File rows of the project, ORDER BY file_path
get_files_by_project_twice(project_id) == files[project_id] \o files[project_id]

get_files_by_project(project_id) == files[project_id]

-----------------------------------------------------------------------------
(* embedder.py and vector_store.py *)

EmbeddingModel == "all-MiniLM-L6-v2"

\* SentenceTransformer.encode(text): an unknown deterministic function of the
\* text, kept as the term encode(text)
Encode(text) == [encode |-> text]

\* embed_text / embed_code
embed_code(combined_text) ==
    [embedding |-> Encode(combined_text),
     tokens    |-> Len(PySplit(combined_text)),
     model     |-> EmbeddingModel]

\* the PointStruct built by upsert_chunk (created_at, a clock reading, is left out)
point_of_code_only(chunk_data) ==
    [id      |-> chunk_data.qdrant_id,
     vector  |-> chunk_data.embedding,
     payload |-> [project_id    |-> UuidStr(chunk_data.project_id),
                  file_path     |-> chunk_data.file_path,
                  function_name |-> chunk_data.function_name,
                  language      |-> chunk_data.language,
                  chunk_type    |-> chunk_data.chunk_type,
                  summary       |-> chunk_data.summary,
                  code          |-> chunk_data.code,
                  combined      |-> Some(chunk_data.code),
                  embedding_strategy |-> "combined",
                  tokens        |-> chunk_data.tokens,
                  tested        |-> chunk_data.tested]]

point_of(chunk_data) ==
    [id      |-> chunk_data.qdrant_id,
     vector  |-> chunk_data.embedding,
     payload |-> [project_id    |-> UuidStr(chunk_data.project_id),
                  file_path     |-> chunk_data.file_path,
                  function_name |-> chunk_data.function_name,
                  language      |-> chunk_data.language,
                  chunk_type    |-> chunk_data.chunk_type,
                  summary       |-> chunk_data.summary,
                  code          |-> chunk_data.code,
                  combined      |-> chunk_data.combined,
                  embedding_strategy |-> "combined",
                  tokens        |-> chunk_data.tokens,
                  tested        |-> chunk_data.tested]]

\* upsert_chunk: client.upsert of one point under its id
upsert_chunk_dropped(points, chunk_data) == points

upsert_chunk(points, chunk_data) ==
    [id \in DOMAIN points \cup {chunk_data.qdrant_id} |->
        IF id = chunk_data.qdrant_id THEN point_of(chunk_data) ELSE points[id]]

-----------------------------------------------------------------------------
(* ingest.py *)

\* read_project_file: FileNotFoundError when the path does not exist
read_project_file_empty_when_missing(workspace, project_id, file_path) ==
    IF IsNone(workspace[<<project_id, file_path>>])
    THEN Returned(<<>>)
    ELSE Returned(Get(workspace[<<project_id, file_path>>]))

read_project_file(workspace, project_id, file_path) ==
    IF IsNone(workspace[<<project_id, file_path>>])
    THEN Raised
    ELSE Returned(Get(workspace[<<project_id, file_path>>]))

-----------------------------------------------------------------------------
(* main.py: process_project *)

\* the locals of one process_project call; pc is the await the call is at.
\* events is a history of the steps taken by the call and how each ended
\* (ok), with the number of drafts for step "chunk" (n) and whether the
\* summarization collaborator failed for step "summarize" (fallback).
\* call holds the parameters of a read-only request (search_chunks,
\* get_project) handled in the slot.
IdleRequest ==
    [pc               |-> "idle",
     project_id       |-> 0,
     files            |-> <<>>,
     fi               |-> 0,
     file_content     |-> None,
     drafts           |-> <<>>,
     ci               |-> 0,
     chunk            |-> None,
     summary_result   |-> None,
     embedding_result |-> None,
     total_chunks     |-> 0,
     processed_chunks |-> 0,
     response         |-> None,
     events           |-> <<>>,
     call             |-> None]

Event(q, step, ok, n, fallback) ==
    [fi |-> q.fi, ci |-> q.ci, step |-> step, ok |-> ok, n |-> n, fallback |-> fallback]

Logged(q, step, ok, n, fallback) ==
    [q EXCEPT !.events = Append(@, Event(q, step, ok, n, fallback))]

HTTPException(status_code, detail) ==
    [status_code |-> status_code, detail |-> detail, body |-> None]

\* the return statement of process_project
return_counts_all_processed(q) ==
    [q EXCEPT !.pc = "done",
              !.response = Some([status_code |-> 200, detail |-> "",
                                 body |-> Some([project_id       |-> q.project_id,
                                                total_chunks     |-> q.total_chunks,
                                                processed_chunks |-> q.total_chunks,
                                                status           |-> "completed"])])]

return_counts(q) ==
    [q EXCEPT !.pc = "done",
              !.response = Some([status_code |-> 200, detail |-> "",
                                 body |-> Some([project_id       |-> q.project_id,
                                                total_chunks     |-> q.total_chunks,
                                                processed_chunks |-> q.processed_chunks,
                                                status           |-> "completed"])])]

\* the outermost handler: except Exception as e: raise HTTPException(500, str(e));
\* it also catches the HTTPException raised inside the try block
outer_except(q, detail) ==
    [q EXCEPT !.pc = "done", !.response = Some(HTTPException(500, detail))]

\* the head of "for file_record in files"
next_file(q) ==
    IF q.fi < Len(q.files)
    THEN [q EXCEPT !.pc = "read", !.fi = @ + 1, !.file_content = None,
                   !.drafts = <<>>, !.ci = 0, !.chunk = None,
                   !.summary_result = None, !.embedding_result = None]
    ELSE return_counts([q EXCEPT !.file_content = None, !.drafts = <<>>, !.ci = 0,
                                 !.chunk = None, !.summary_result = None,
                                 !.embedding_result = None])

\* the head of "for chunk_data in chunks"
next_chunk_skipping(q) ==
    IF q.ci < Len(q.drafts)
    THEN [q EXCEPT !.pc = "create",
                   !.ci = IF @ + 2 <= Len(q.drafts) THEN @ + 2 ELSE @ + 1,
                   !.chunk = None,
                   !.summary_result = None, !.embedding_result = None]
    ELSE next_file(q)

next_chunk(q) ==
    IF q.ci < Len(q.drafts)
    THEN [q EXCEPT !.pc = "create", !.ci = @ + 1, !.chunk = None,
                   !.summary_result = None, !.embedding_result = None]
    ELSE next_file(q)

\* except Exception around one file: print, continue
file_except_propagating(q) == outer_except(q, "file")

file_except(q) == next_file(q)

\* except Exception around one chunk: print, continue
chunk_except_propagating(q) == outer_except(q, "chunk")

chunk_except(q) == next_chunk(q)

\* total_chunks += len(chunks)
add_total_per_file(total_chunks, drafts) == total_chunks + 1

add_total(total_chunks, drafts) == total_chunks + Len(drafts)

\* qdrant_id = str(chunk.chunk_id)
qdrant_id_of_project(chunk) == UuidStr(chunk.project_id)

qdrant_id_of(chunk) == UuidStr(chunk.chunk_id)

\* chunk_data_for_qdrant
chunk_data_for_qdrant(chunk, project_id, embedding_result) ==
    [qdrant_id     |-> qdrant_id_of(chunk),
     project_id    |-> project_id,
     file_path     |-> chunk.file_path,
     function_name |-> chunk.function_name,
     language      |-> chunk.language,
     chunk_type    |-> chunk.chunk_type,
     summary       |-> chunk.summary,
     code          |-> chunk.code,
     combined      |-> chunk.combined,
     embedding     |-> embedding_result.embedding,
     tokens        |-> chunk.tokens,
     tested        |-> chunk.tested]


\* db.get_project: the Project row, or None
get_project(project_id) == IF project_id \in projects THEN Some(project_id) ELSE None

(* the stores at start: two projects registered by intake, none processed *)

\* a row of the files table: file_id is drawn by gen_random_uuid() and
\* created_at read from the clock at the insert
FileRow(file_id, project_id, file_path, language, created_at) ==
    [file_id |-> file_id, project_id |-> project_id, file_path |-> file_path,
     language |-> language, created_at |-> created_at]

\* project 101: a.go was registered but is gone from the workspace, b.py is
\* the text of scenario A.  project 102: m.go is a Go file, z.py cannot be
\* parsed within the recursion limit.  103 is not a project.
InitFiles ==
    [p \in ProjectIds |->
        IF p = 101 THEN <<FileRow(1, 101, "a.go", LangGo, 0),
                          FileRow(2, 101, "b.py", LangPython, 0)>>
        ELSE IF p = 102 THEN <<FileRow(3, 102, "m.go", LangGo, 0),
                               FileRow(4, 102, "z.py", LangPython, 0)>>
        ELSE <<>>]

DiskKeys == {<<101, "a.go">>, <<101, "b.py">>, <<102, "m.go">>, <<102, "z.py">>}

InitDisk ==
    [k \in DiskKeys |->
        IF k = <<101, "a.go">> THEN None
        ELSE IF k = <<101, "b.py">> THEN Some(ScenarioAText)
        ELSE IF k = <<102, "z.py">> THEN Some(DeepExprText)
        ELSE Some(GoText)]

\* the number of Chunk rows one full run over a project of InitFiles inserts
FileDrafts(project_id, file_record) ==
    LET content == InitDisk[<<project_id, file_record.file_path>>]
    IN  IF IsNone(content) THEN 0
        ELSE LET ch == chunk_file(file_record.file_path, Get(content),
                                  file_record.language, UuidStr(project_id))
             IN  IF ch.raised THEN 0 ELSE Len(Get(ch.value))

RECURSIVE SumDrafts(_, _)
SumDrafts(project_id, file_records) ==
    IF file_records = <<>> THEN 0
    ELSE FileDrafts(project_id, Head(file_records)) + SumDrafts(project_id, Tail(file_records))

RowsNeeded == [p \in ProjectIds |-> SumDrafts(p, InitFiles[p])]

\* the chunks table of the model holds at most MaxChunkRows rows: a request
\* is accepted only when the rows of a full run still fit
MaxChunkRows == 3

\* the number of process_project requests of one behaviour
MaxRequests == 2

RECURSIVE FaultCount(_)
\* the collaborator failures in the history of one request: the calls that
\* raised and the summaries that fell back; a missing file, an unparsable
\* text and an unsupported llm_provider are properties of the workspace and
\* of the settings, not failures of a collaborator
FaultCount(events) ==
    IF events = <<>> THEN 0
    ELSE (IF ~Head(events).ok /\ Head(events).step \notin {"read", "chunk", "summarize"}
          THEN 1 ELSE 0)
         + (IF Head(events).fallback THEN 1 ELSE 0)
         + FaultCount(Tail(events))

\* the number of collaborator failures met by one request
MaxFaults == 1

\* the step leaves the request within the bound on collaborator failures
WithinFaults(r) == FaultCount(rq'[r].events) <= MaxFaults

Slots == {"r1", "r2"}

\* the replies of the summarization collaborator drawn in the pipeline
PipelineReplies == {FailReply("timeout"), HttpReply(200, Some(ReplyPlain))}

\* process_project up to the first await: project = await db.get_project(...)
GetProject(r, pid) ==
    /\ rq[r].pc \in {"idle", "done"}
    /\ Len(chunks) + RowsNeeded[pid] <= MaxChunkRows
    /\ received < MaxRequests
    /\ received' = received + 1
    /\ \E db_ok \in BOOLEAN :
         LET q == Logged([IdleRequest EXCEPT !.project_id = pid],
                         "get_project", db_ok, 0, FALSE)
         IN  rq' = [rq EXCEPT ![r] =
                      IF ~db_ok THEN outer_except(q, "db")
                      ELSE IF IsNone(get_project(pid))
                      THEN outer_except(q, "404: Project not found")
                      ELSE [q EXCEPT !.pc = "get_files"]]
    /\ UNCHANGED <<llm_provider, projects, files, disk, chunks, vectors, sumCall, chunkCall, endCall, supported_languages>>
    /\ WithinFaults(r)

\* files = await ingester.get_project_files(project_id); counters set to 0
GetFiles(r) ==
    /\ rq[r].pc = "get_files"
    /\ \E db_ok \in BOOLEAN :
         LET q == Logged(rq[r], "get_files", db_ok, 0, FALSE)
         IN  rq' = [rq EXCEPT ![r] =
                      IF ~db_ok THEN outer_except(q, "db")
                      ELSE next_file([q EXCEPT !.files = get_files_by_project(q.project_id),
                                               !.total_chunks = 0,
                                               !.processed_chunks = 0])]
    /\ UNCHANGED <<llm_provider, projects, files, disk, chunks, vectors, received, sumCall, chunkCall, endCall, supported_languages>>
    /\ WithinFaults(r)

\* file_content = await ingester.read_project_file(...)
ReadFile(r) ==
    /\ rq[r].pc = "read"
    /\ LET q  == rq[r]
           rd == read_project_file(disk, q.project_id, q.files[q.fi].file_path)
       IN  rq' = [rq EXCEPT ![r] =
                    IF rd.raised
                    THEN file_except(Logged(q, "read", FALSE, 0, FALSE))
                    ELSE [Logged(q, "read", TRUE, 0, FALSE) EXCEPT
                              !.pc = "chunk", !.file_content = rd.value]]
    /\ UNCHANGED <<llm_provider, projects, files, disk, chunks, vectors, received, sumCall, chunkCall, endCall, supported_languages>>
    /\ WithinFaults(r)

\* chunks = await chunker.chunk_file(...); total_chunks += len(chunks)
ChunkFile(r) ==
    /\ rq[r].pc = "chunk"
    /\ LET q  == rq[r]
           f  == q.files[q.fi]
           ch == chunk_file(f.file_path, Get(q.file_content), f.language,
                            UuidStr(q.project_id))
       IN  rq' = [rq EXCEPT ![r] =
                    IF ch.raised
                    THEN file_except(Logged(q, "chunk", FALSE, 0, FALSE))
                    ELSE next_chunk([Logged(q, "chunk", TRUE, Len(Get(ch.value)), FALSE) EXCEPT
                                        !.drafts = Get(ch.value),
                                        !.total_chunks = add_total(@, Get(ch.value))])]
    /\ UNCHANGED <<llm_provider, projects, files, disk, chunks, vectors, received, sumCall, chunkCall, endCall, supported_languages>>
    /\ WithinFaults(r)

\* chunk_data.project_id = project_id; chunk = await db.create_chunk(chunk_data)
CreateChunk(r) ==
    /\ rq[r].pc = "create"
    /\ \E db_ok \in BOOLEAN :
         LET q          == rq[r]
             chunk_data == [q.drafts[q.ci] EXCEPT !.project_id = q.project_id]
         IN  IF db_ok
             THEN /\ chunks' = create_chunk(chunks, chunk_data)
                  /\ rq' = [rq EXCEPT ![r] =
                              [Logged(q, "create", TRUE, 0, FALSE) EXCEPT
                                  !.pc = "summarize",
                                  !.chunk = Some(new_chunk_row(chunks, chunk_data))]]
             ELSE /\ chunks' = chunks
                  /\ rq' = [rq EXCEPT ![r] = chunk_except(Logged(q, "create", FALSE, 0, FALSE))]
    /\ UNCHANGED <<llm_provider, projects, files, disk, vectors, received, sumCall, chunkCall, endCall, supported_languages>>
    /\ WithinFaults(r)

\* summary_result = await summarizer.summarize_code(...)
Summarize(r) ==
    /\ rq[r].pc = "summarize"
    /\ \E reply \in PipelineReplies :
         LET q     == rq[r]
             chunk == Get(q.chunk)
             res   == summarize_code(llm_provider, chunk.code, chunk.language,
                                     chunk.chunk_type, chunk.function_name, reply)
             fell  == llm_provider = "ollama" /\ IsFailure(reply)
         IN  rq' = [rq EXCEPT ![r] =
                      IF res.raised
                      THEN chunk_except(Logged(q, "summarize", FALSE, 0, fell))
                      ELSE [Logged(q, "summarize", TRUE, 0, fell) EXCEPT
                               !.pc = "update_summary", !.summary_result = res.value]]
    /\ UNCHANGED <<llm_provider, projects, files, disk, chunks, vectors, received, sumCall, chunkCall, endCall, supported_languages>>
    /\ WithinFaults(r)

\* chunk = await db.update_chunk_summary(chunk.chunk_id, summary, combined, tokens)
UpdateSummary(r) ==
    /\ rq[r].pc = "update_summary"
    /\ \E db_ok \in BOOLEAN :
         LET q     == rq[r]
             chunk == Get(q.chunk)
             sr    == Get(q.summary_result)
             rows  == update_chunk_summary(chunks, chunk.chunk_id, sr.summary,
                                           sr.combined, sr.tokens)
         IN  IF db_ok
             THEN /\ chunks' = rows
                  /\ rq' = [rq EXCEPT ![r] =
                              [Logged(q, "update_summary", TRUE, 0, FALSE) EXCEPT
                                  !.pc = "embed", !.chunk = Some(rows[chunk.chunk_id])]]
             ELSE /\ chunks' = chunks
                  /\ rq' = [rq EXCEPT ![r] =
                              chunk_except(Logged(q, "update_summary", FALSE, 0, FALSE))]
    /\ UNCHANGED <<llm_provider, projects, files, disk, vectors, received, sumCall, chunkCall, endCall, supported_languages>>
    /\ WithinFaults(r)

\* embedding_result = embedder.embed_code(chunk.combined)
Embed(r) ==
    /\ rq[r].pc = "embed"
    /\ \E model_ok \in BOOLEAN :
         LET q     == rq[r]
             chunk == Get(q.chunk)
         IN  rq' = [rq EXCEPT ![r] =
                      IF model_ok
                      THEN [Logged(q, "embed", TRUE, 0, FALSE) EXCEPT
                               !.pc = "upsert",
                               !.embedding_result = Some(embed_code(Get(chunk.combined)))]
                      ELSE chunk_except(Logged(q, "embed", FALSE, 0, FALSE))]
    /\ UNCHANGED <<llm_provider, projects, files, disk, chunks, vectors, received, sumCall, chunkCall, endCall, supported_languages>>
    /\ WithinFaults(r)

\* await vector_store.upsert_chunk(chunk_data_for_qdrant)
Upsert(r) ==
    /\ rq[r].pc = "upsert"
    /\ \E qdrant_ok \in BOOLEAN :
         LET q    == rq[r]
             data == chunk_data_for_qdrant(Get(q.chunk), q.project_id,
                                           Get(q.embedding_result))
         IN  IF qdrant_ok
             THEN /\ vectors' = upsert_chunk(vectors, data)
                  /\ rq' = [rq EXCEPT ![r] =
                              [Logged(q, "upsert", TRUE, 0, FALSE) EXCEPT !.pc = "link"]]
             ELSE /\ vectors' = vectors
                  /\ rq' = [rq EXCEPT ![r] = chunk_except(Logged(q, "upsert", FALSE, 0, FALSE))]
    /\ UNCHANGED <<llm_provider, projects, files, disk, chunks, received, sumCall, chunkCall, endCall, supported_languages>>
    /\ WithinFaults(r)

\* await db.update_chunk_embedding(chunk.chunk_id, qdrant_id); processed_chunks += 1
Link_latest_row(r) ==
    /\ rq[r].pc = "link"
    /\ \E db_ok \in BOOLEAN :
         LET q     == rq[r]
             chunk == chunks[Len(chunks)]
         IN  IF db_ok
             THEN /\ chunks' = update_chunk_embedding(chunks, chunk.chunk_id,
                                                      qdrant_id_of(chunk))
                  /\ rq' = [rq EXCEPT ![r] =
                              next_chunk([Logged(q, "link", TRUE, 0, FALSE) EXCEPT
                                             !.processed_chunks = @ + 1])]
             ELSE /\ chunks' = chunks
                  /\ rq' = [rq EXCEPT ![r] = chunk_except(Logged(q, "link", FALSE, 0, FALSE))]
    /\ UNCHANGED <<llm_provider, projects, files, disk, vectors, received, sumCall, chunkCall, endCall, supported_languages>>
    /\ WithinFaults(r)

Link(r) ==
    /\ rq[r].pc = "link"
    /\ \E db_ok \in BOOLEAN :
         LET q     == rq[r]
             chunk == Get(q.chunk)
         IN  IF db_ok
             THEN /\ chunks' = update_chunk_embedding(chunks, chunk.chunk_id,
                                                      qdrant_id_of(chunk))
                  /\ rq' = [rq EXCEPT ![r] =
                              next_chunk([Logged(q, "link", TRUE, 0, FALSE) EXCEPT
                                             !.processed_chunks = @ + 1])]
             ELSE /\ chunks' = chunks
                  /\ rq' = [rq EXCEPT ![r] = chunk_except(Logged(q, "link", FALSE, 0, FALSE))]
    /\ UNCHANGED <<llm_provider, projects, files, disk, vectors, received, sumCall, chunkCall, endCall, supported_languages>>
    /\ WithinFaults(r)


-----------------------------------------------------------------------------
(* single calls of the summarizer and of the chunker *)

NoSumCall ==
    [code |-> <<>>, language |-> <<>>, chunk_type |-> <<>>, function_name |-> None,
     reply |-> None, result |-> None]

SumCodes == {<<>>, ModuleOnlyText, ScenarioAText}

SumNames == {None, Some(<<>>), Some(<<"f","o","o">>)}

SumCallInputs ==
    {[code |-> c, language |-> l, chunk_type |-> k, function_name |-> n,
      reply |-> None, result |-> None] :
        c \in SumCodes, l \in {LangGo, LangPython},
        k \in {KindFunction, KindClass, KindModule, KindFile}, n \in SumNames}

\* result = await summarizer.summarize_code(code, language, chunk_type, function_name)
SummarizeCall ==
    /\ IsNone(sumCall.result)
    /\ \E reply \in FailureReplies \cup SuccessReplies :
         sumCall' = [sumCall EXCEPT
                        !.reply = Some(reply),
                        !.result = Some(summarize_code(llm_provider, sumCall.code,
                                                       sumCall.language, sumCall.chunk_type,
                                                       sumCall.function_name, reply))]
    /\ UNCHANGED <<llm_provider, projects, files, disk, chunks, vectors, rq, received, chunkCall, endCall, supported_languages>>

NoChunkCall ==
    [file_path |-> "", file_content |-> <<>>, language |-> <<>>, project_id |-> "",
     result |-> None, again |-> None]

LangJavascript == <<"j","a","v","a","s","c","r","i","p","t">>

LangUnknown == <<"u","n","k","n","o","w","n">>

ChunkCallInputs ==
    {[file_path |-> p, file_content |-> t, language |-> l, project_id |-> UuidStr(101),
      result |-> None, again |-> None] :
        p \in {"a.py", "lib/b.go"}, t \in Texts,
        l \in {LangPython, LangGo, LangJavascript, LangUnknown}}

ChunkCall_registering ==
    /\ IsNone(chunkCall.again)
    /\ LET chunks_returned == chunk_file(chunkCall.file_path, chunkCall.file_content,
                                         chunkCall.language, chunkCall.project_id)
       IN  chunkCall' = IF IsNone(chunkCall.result)
                        THEN [chunkCall EXCEPT !.result = Some(chunks_returned)]
                        ELSE [chunkCall EXCEPT !.again = Some(chunks_returned)]
    /\ supported_languages' = Append(supported_languages, chunkCall.language)
    /\ UNCHANGED <<llm_provider, projects, files, disk, chunks, vectors, rq, received,
                   sumCall, endCall>>

\* chunks = await chunker.chunk_file(file_path, file_content, language, project_id)
\* and the same call once more
ChunkCall ==
    /\ IsNone(chunkCall.again)
    /\ LET chunks_returned == chunk_file(chunkCall.file_path, chunkCall.file_content,
                                         chunkCall.language, chunkCall.project_id)
       IN  chunkCall' = IF IsNone(chunkCall.result)
                        THEN [chunkCall EXCEPT !.result = Some(chunks_returned)]
                        ELSE [chunkCall EXCEPT !.again = Some(chunks_returned)]
    /\ UNCHANGED <<llm_provider, projects, files, disk, chunks, vectors, rq, received, sumCall, endCall, supported_languages>>

NoEndCall == [node |-> Other("Module"), result |-> None]

\* nodes given to _get_end_line: with the end_lineno attribute (what
\* ast.parse of CPython 3.8 and later builds) and without it
EndCallInputs ==
    {[node |-> Node("FunctionDef", <<"f">>, lineno, end_lineno), result |-> None] :
        lineno \in {1, 4}, end_lineno \in {None, Some(4), Some(6)}}

\* end_line = self._get_end_line(node)
EndLineCall ==
    /\ IsNone(endCall.result)
    /\ endCall' = [endCall EXCEPT !.result = Some(get_end_line(endCall.node))]
    /\ UNCHANGED <<llm_provider, projects, files, disk, chunks, vectors, rq, received,
                   sumCall, chunkCall, supported_languages>>

-----------------------------------------------------------------------------
(* specifications *)

Providers == {"ollama", "openai"}

InitStores ==
    /\ llm_provider \in Providers
    /\ projects = {101, 102}
    /\ files = InitFiles
    /\ disk = InitDisk
    /\ chunks = <<>>
    /\ vectors = <<>>
    /\ rq = [r \in Slots |-> IdleRequest]
    /\ received = 0
    /\ supported_languages = <<LangPython>>

Init ==
    /\ InitStores
    /\ sumCall = NoSumCall
    /\ chunkCall = NoChunkCall
    /\ endCall = NoEndCall

\* one process_project request at a time
Step(r) ==
    \/ \E pid \in ProjectIds : GetProject(r, pid)
    \/ GetFiles(r)
    \/ ReadFile(r)
    \/ ChunkFile(r)
    \/ CreateChunk(r)
    \/ Summarize(r)
    \/ UpdateSummary(r)
    \/ Embed(r)
    \/ Upsert(r)
    \/ Link(r)

Next == Step("r1")

Spec == Init /\ [][Next]_vars

InitSummarizer ==
    /\ InitStores
    /\ sumCall \in SumCallInputs
    /\ chunkCall = NoChunkCall
    /\ endCall = NoEndCall

NextSummarizer == SummarizeCall

SpecSummarizer == InitSummarizer /\ [][NextSummarizer]_vars

InitChunker ==
    /\ InitStores
    /\ sumCall = NoSumCall
    /\ chunkCall \in ChunkCallInputs
    /\ endCall \in EndCallInputs

NextChunker == ChunkCall \/ EndLineCall

SpecChunker == InitChunker /\ [][NextChunker]_vars


-----------------------------------------------------------------------------
(* properties *)

Last(seq) == seq[Len(seq)]

\* the six per-chunk steps of the pipeline, in their order
ChunkSteps == <<"create", "summarize", "update_summary", "embed", "upsert", "link">>

\* the call q has an event of the step for file fi, chunk ci, with result ok
Did(q, fi, ci, step, ok) ==
    \E i \in DOMAIN q.events :
        /\ q.events[i].fi = fi /\ q.events[i].ci = ci
        /\ q.events[i].step = step /\ q.events[i].ok = ok

\* the call q returned the counts
Returned200(q) ==
    /\ q.pc = "done"
    /\ Get(q.response).status_code = 200
    /\ ~IsNone(Get(q.response).body)

Counts(q) == Get(Get(q.response).body)

RECURSIVE SumChunked(_)
\* the sum of the draft counts over the files whose chunking succeeded
SumChunked(events) ==
    IF events = <<>> THEN 0
    ELSE (IF Head(events).step = "chunk" /\ Head(events).ok THEN Head(events).n ELSE 0)
         + SumChunked(Tail(events))

\* the drafts (file, chunk) of the call for which all six steps succeeded
FullyProcessed(q) ==
    {fc \in {<<q.events[i].fi, q.events[i].ci>> : i \in DOMAIN q.events} :
        \A k \in DOMAIN ChunkSteps : Did(q, fc[1], fc[2], ChunkSteps[k], TRUE)}

\* scenario C: two files, the first unreadable, the second read and chunked
\* into 3 drafts of which exactly one failed, at the embedding step, while
\* the other two went through all six steps
ScenarioC(q) ==
    /\ Returned200(q)
    /\ Len(q.files) = 2
    /\ Did(q, 1, 0, "read", FALSE)
    /\ Did(q, 2, 0, "read", TRUE)
    /\ \E i \in DOMAIN q.events :
          q.events[i].step = "chunk" /\ q.events[i].ok /\ q.events[i].n = 3
    /\ \E bad \in 1..3 :
          /\ Did(q, 2, bad, "embed", FALSE)
          /\ \A ci \in (1..3) \ {bad} : <<2, ci>> \in FullyProcessed(q)

\* C1: when process_project returns its counts, total_chunks is the sum of the
\* draft counts of the files that were read and chunked, processed_chunks is
\* the number of drafts for which all six steps succeeded, and scenario C
\* returns total_chunks = 3 and processed_chunks = 2.
C1_Counts ==
    \A r \in Slots :
        Returned200(rq[r]) =>
            /\ Counts(rq[r]).total_chunks = SumChunked(rq[r].events)
            /\ Counts(rq[r]).processed_chunks = Cardinality(FullyProcessed(rq[r]))
            /\ ScenarioC(rq[r]) =>
                  /\ Counts(rq[r]).total_chunks = 3
                  /\ Counts(rq[r]).processed_chunks = 2

C1_Witness == \E r \in Slots : ScenarioC(rq[r])

\* C2: once the project and its file list were obtained, the call ends by
\* returning the counts, having visited every file and attempted every draft
\* of every chunked file, whatever steps failed for single chunks.
C2_Isolation ==
    \A r \in Slots :
        (rq[r].pc = "done" /\ Did(rq[r], 0, 0, "get_files", TRUE)) =>
            /\ Returned200(rq[r])
            /\ \A fi \in 1..Len(rq[r].files) :
                  Did(rq[r], fi, 0, "read", TRUE) \/ Did(rq[r], fi, 0, "read", FALSE)
            /\ \A i \in DOMAIN rq[r].events :
                  (rq[r].events[i].step = "chunk" /\ rq[r].events[i].ok) =>
                      \A ci \in 1..rq[r].events[i].n :
                          \/ Did(rq[r], rq[r].events[i].fi, ci, "create", TRUE)
                          \/ Did(rq[r], rq[r].events[i].fi, ci, "create", FALSE)

\* a step failed for one chunk, a later chunk of the same file was attempted,
\* and the counts were returned
C2_Witness ==
    \E r \in Slots :
        /\ Returned200(rq[r])
        /\ \E i, j \in DOMAIN rq[r].events :
              /\ i < j
              /\ rq[r].events[i].ci = 1 /\ ~rq[r].events[i].ok
              /\ rq[r].events[j].fi = rq[r].events[i].fi
              /\ rq[r].events[j].ci = 2 /\ rq[r].events[j].step = "create"

\* the step from rq[r] to rq'[r] is the failing read of the current file
ReadFails(r) ==
    /\ rq[r].pc = "read"
    /\ rq'[r] # rq[r]
    /\ IsNone(disk[<<rq[r].project_id, rq[r].files[rq[r].fi].file_path>>])

\* the file paths whose read failed in the call q
UnreadPaths(q) ==
    {q.files[q.events[i].fi].file_path :
        i \in {j \in DOMAIN q.events : q.events[j].step = "read" /\ ~q.events[j].ok}}

\* C3: a failing read writes nothing (no Chunk row, no vector, no change of
\* the File rows or of total_chunks) and moves the call to the next file, or
\* to its return after the last file; and no step of the call ever adds a
\* Chunk row or a vector for a file whose read failed in this call.
C3_ReadFailureSkipsFile ==
    [][\A r \in Slots :
          /\ ReadFails(r) =>
                /\ chunks' = chunks /\ vectors' = vectors /\ files' = files
                /\ rq'[r].total_chunks = rq[r].total_chunks
                /\ IF rq[r].fi < Len(rq[r].files)
                   THEN rq'[r].pc = "read" /\ rq'[r].fi = rq[r].fi + 1
                   ELSE Returned200(rq'[r])
          /\ rq'[r] # rq[r] =>
                /\ \A i \in (Len(chunks) + 1)..Len(chunks') :
                      chunks'[i].file_path \notin UnreadPaths(rq'[r])
                /\ \A id \in DOMAIN vectors' \ DOMAIN vectors :
                      vectors'[id].payload.file_path \notin UnreadPaths(rq'[r])
      ]_vars

\* the read of the first file failed and the second file was read
C3_Witness ==
    \E r \in Slots : Did(rq[r], 1, 0, "read", FALSE) /\ Did(rq[r], 2, 0, "read", TRUE)

\* C4: a process_project call for an identifier without Project row answers
\* 404, and reads no file and writes no chunk and no vector.
C4_NotFoundIs404 ==
    \A r \in Slots :
        (/\ rq[r].pc = "done"
         /\ rq[r].project_id \notin projects
         /\ Did(rq[r], 0, 0, "get_project", TRUE)) =>
            /\ Get(rq[r].response).status_code = 404
            /\ \A i \in DOMAIN rq[r].events : rq[r].events[i].step = "get_project"


\* the vector index holds a point under the string form of the row's chunk_id
VectorWritten(row) == UuidStr(row.chunk_id) \in DOMAIN vectors

\* C5 as stated: a Chunk row's qdrant_id is set if and only if a vector for
\* the chunk has been written to the vector index.
C5_SetIffWritten ==
    \A i \in DOMAIN chunks : ~IsNone(chunks[i].qdrant_id) <=> VectorWritten(chunks[i])

\* C5 amended: a Chunk row's qdrant_id is set only if a vector for the chunk
\* has been written to the vector index; before the write it is absent.
C5_SetOnlyIfWritten ==
    \A i \in DOMAIN chunks : ~IsNone(chunks[i].qdrant_id) => VectorWritten(chunks[i])

\* one row is linked to its vector while another row has neither
C5_Witness ==
    /\ \E i \in DOMAIN chunks : ~IsNone(chunks[i].qdrant_id) /\ VectorWritten(chunks[i])
    /\ \E i \in DOMAIN chunks : IsNone(chunks[i].qdrant_id) /\ ~VectorWritten(chunks[i])

\* C6: every Chunk row has summary, combined and tokens all set or all absent.
C6_SummaryFieldsTogether ==
    \A i \in DOMAIN chunks :
        \/ IsNone(chunks[i].summary) /\ IsNone(chunks[i].combined) /\ IsNone(chunks[i].tokens)
        \/ ~IsNone(chunks[i].summary) /\ ~IsNone(chunks[i].combined) /\ ~IsNone(chunks[i].tokens)

\* a row with the three fields set next to a row without them
C6_Witness ==
    /\ \E i \in DOMAIN chunks : ~IsNone(chunks[i].summary) /\ ~IsNone(chunks[i].tokens)
    /\ \E i \in DOMAIN chunks : IsNone(chunks[i].summary)

\* C7: a qdrant_id that is present is the string form of the row's own
\* chunk_id, and the vector index holds under that string the point written
\* for the chunk (same id, same code, file path and project).
C7_VectorIdIsChunkId ==
    \A i \in DOMAIN chunks :
        ~IsNone(chunks[i].qdrant_id) =>
            /\ Get(chunks[i].qdrant_id) = UuidStr(chunks[i].chunk_id)
            /\ Get(chunks[i].qdrant_id) \in DOMAIN vectors
            /\ vectors[Get(chunks[i].qdrant_id)].id = UuidStr(chunks[i].chunk_id)
            /\ vectors[Get(chunks[i].qdrant_id)].payload.code = chunks[i].code
            /\ vectors[Get(chunks[i].qdrant_id)].payload.file_path = chunks[i].file_path
            /\ vectors[Get(chunks[i].qdrant_id)].payload.project_id = UuidStr(chunks[i].project_id)

\* two rows of different projects are linked
C7_Witness ==
    \E i, j \in DOMAIN chunks :
        /\ ~IsNone(chunks[i].qdrant_id) /\ ~IsNone(chunks[j].qdrant_id)
        /\ chunks[i].project_id # chunks[j].project_id

\* the step from q to q2 is the step of the pipeline named step, for a chunk
\* whose summarization fell back, and it succeeded
FallbackChunkStep(q, q2, step) ==
    /\ q.pc = step
    /\ Len(q2.events) = Len(q.events) + 1
    /\ Last(q2.events).step = step /\ Last(q2.events).ok
    /\ \E i \in DOMAIN q2.events :
          /\ q2.events[i].step = "summarize" /\ q2.events[i].fallback
          /\ q2.events[i].fi = Last(q2.events).fi /\ q2.events[i].ci = Last(q2.events).ci

\* C8: a failure of the summarization collaborator does not leave
\* summarize_code as an exception: the step succeeds with the fallback result
\* and the chunk goes on through summary update, embedding, vector write and
\* link like any other chunk, and is counted when the link succeeds.
C8_FallbackIsSuccess ==
    [][\A r \in Slots :
          /\ (/\ rq[r].pc = "summarize"
              /\ Len(rq'[r].events) = Len(rq[r].events) + 1
              /\ Last(rq'[r].events).fallback) =>
                /\ Last(rq'[r].events).ok
                /\ rq'[r].pc = "update_summary"
                /\ Get(rq'[r].summary_result).model = "fallback"
          /\ FallbackChunkStep(rq[r], rq'[r], "update_summary") =>
                /\ rq'[r].pc = "embed"
                /\ chunks'[Get(rq[r].chunk).chunk_id].summary =
                      Some(Get(rq[r].summary_result).summary)
          /\ FallbackChunkStep(rq[r], rq'[r], "embed") => rq'[r].pc = "upsert"
          /\ FallbackChunkStep(rq[r], rq'[r], "upsert") => rq'[r].pc = "link"
          /\ FallbackChunkStep(rq[r], rq'[r], "link") =>
                rq'[r].processed_chunks = rq[r].processed_chunks + 1
      ]_vars

\* a chunk whose summarization fell back was linked and counted
C8_Witness ==
    \E r \in Slots :
        /\ rq[r].processed_chunks >= 1
        /\ \E i, j \in DOMAIN rq[r].events :
              /\ rq[r].events[i].step = "summarize" /\ rq[r].events[i].fallback
              /\ rq[r].events[j].step = "link" /\ rq[r].events[j].ok
              /\ rq[r].events[j].fi = rq[r].events[i].fi
              /\ rq[r].events[j].ci = rq[r].events[i].ci

\* the number of words of s: the positions at which a word ends
NumWords(s) ==
    Cardinality({i \in 1..Len(s) : ~IsSpace(s[i]) /\ (i = Len(s) \/ IsSpace(s[i + 1]))})

\* the title-cased unit kinds
TitleCased(chunk_type) ==
    CASE chunk_type = KindFunction -> <<"F","u","n","c","t","i","o","n">>
      [] chunk_type = KindClass    -> <<"C","l","a","s","s">>
      [] chunk_type = KindModule   -> <<"M","o","d","u","l","e">>
      [] chunk_type = KindFile     -> <<"F","i","l","e">>

\* "# " + kind + (" " + name, when a name is present) + " in " + language
ExpectedFallbackSummary(c) ==
    <<"#", " ">> \o TitleCased(c.chunk_type)
    \o (IF c.function_name \in {None, Some(<<>>)} THEN <<>>
        ELSE <<" ">> \o Get(c.function_name))
    \o <<" ", "i", "n", " ">> \o c.language

\* the summarize_code call ended after a failure of the collaborator
FellBack(c) ==
    /\ ~IsNone(c.result)
    /\ llm_provider = "ollama"
    /\ IsFailure(Get(c.reply))

\* C9: after a failure of the collaborator the result is the fallback: the
\* summary is "# " + title-cased kind + optional " " + name + " in " +
\* language ("# Function foo in go" for function foo in go), combined is the
\* summary, two newlines and the code, and tokens is the word count of the
\* code plus that of the summary.
C9_FallbackForm ==
    FellBack(sumCall) =>
        LET res == Get(sumCall.result)
            v   == Get(res.value)
        IN  /\ ~res.raised
            /\ v.summary = ExpectedFallbackSummary(sumCall)
            /\ Len(v.combined) = Len(v.summary) + 2 + Len(sumCall.code)
            /\ SubSeq(v.combined, 1, Len(v.summary)) = v.summary
            /\ v.combined[Len(v.summary) + 1] = NL /\ v.combined[Len(v.summary) + 2] = NL
            /\ SubSeq(v.combined, Len(v.summary) + 3, Len(v.combined)) = sumCall.code
            /\ v.tokens = NumWords(sumCall.code) + NumWords(v.summary)
            /\ (/\ sumCall.chunk_type = KindFunction
                /\ sumCall.function_name = Some(<<"f","o","o">>)
                /\ sumCall.language = LangGo) =>
                  v.summary = <<"#"," ","F","u","n","c","t","i","o","n"," ","f","o","o"," ","i","n"," ","g","o">>

\* the fallback was produced for function foo in go, for a code of several words
C9_Witness ==
    /\ FellBack(sumCall)
    /\ sumCall.chunk_type = KindFunction
    /\ sumCall.function_name = Some(<<"f","o","o">>)
    /\ sumCall.language = LangGo
    /\ sumCall.code = ModuleOnlyText
    /\ Get(Get(sumCall.result).value).tokens = 8

\* C10: chunk_file returns at least one chunk draft and raises no error, for
\* any path, text and language.
C10_AtLeastOneChunk ==
    ~IsNone(chunkCall.result) =>
        /\ ~Get(chunkCall.result).raised
        /\ Len(Get(Get(chunkCall.result).value)) >= 1


-----------------------------------------------------------------------------
(* chunker properties, over the calls of SpecChunker *)

\* the first call of chunk_file has returned or raised
Called == ~IsNone(chunkCall.result)

\* the drafts the first call returned
Drafts == Get(Get(chunkCall.result).value)

\* the single whole-text draft of the given kind for the inputs of the call
WholeText(chunk_type) ==
    <<[project_id    |-> 101,
       function_name |-> None,
       file_path     |-> chunkCall.file_path,
       language      |-> chunkCall.language,
       chunk_type    |-> chunk_type,
       code          |-> chunkCall.file_content]>>

\* the call is for python and the text has a syntax tree
Parsed == chunkCall.language = LangPython /\ ast_parse(chunkCall.file_content).outcome = "tree"

\* C11: when the language is python and parsing the text fails, chunk_file
\* returns exactly one draft of kind file, without unit name, whose code is
\* the whole text, and raises nothing.
C11_ParseFailureGivesFileChunk ==
    (/\ Called
     /\ chunkCall.language = LangPython
     /\ ast_parse(chunkCall.file_content).outcome # "tree")
        => /\ ~Get(chunkCall.result).raised
           /\ Drafts = WholeText(KindFile)

\* C12: for every language other than python chunk_file returns exactly one
\* draft of kind file, without unit name, with the given language and path
\* and the entire text as code, whatever the text is.
C12_UnsupportedLanguageWholeFile ==
    (Called /\ chunkCall.language # LangPython)
        => /\ ~Get(chunkCall.result).raised
           /\ Drafts = WholeText(KindFile)

\* a text that python would parse into three definitions, given as go
C12_Witness ==
    /\ Called
    /\ chunkCall.language = LangGo
    /\ chunkCall.file_content = ScenarioAText
    /\ Len(Drafts) = 1
    /\ Drafts[1].code = ScenarioAText

\* the classes of node that define a function or a class
DefinitionTypes == {"FunctionDef", "AsyncFunctionDef", "ClassDef"}

\* the definition nodes of a walk, in walk order
Definitions(walk) == SelectSeq(walk, LAMBDA n : n.type \in DefinitionTypes)

\* C13: a python text that parses and holds no function or class definition
\* at any depth gives exactly one draft of kind module with the whole text;
\* a module draft never comes together with function or class drafts.
C13_ModuleChunkAlone ==
    /\ (Parsed /\ Called /\ Definitions(ast_parse(chunkCall.file_content).walk) = <<>>)
            => /\ ~Get(chunkCall.result).raised
               /\ Drafts = WholeText(KindModule)
    /\ (Called /\ ~Get(chunkCall.result).raised)
            => \A i \in 1..Len(Drafts) :
                    Drafts[i].chunk_type = KindModule => Len(Drafts) = 1

C13_Witness ==
    /\ Called
    /\ chunkCall.language = LangPython
    /\ chunkCall.file_content = ModuleOnlyText
    /\ Len(Drafts) = 1
    /\ Drafts[1].chunk_type = KindModule
    /\ Drafts[1].code = ModuleOnlyText


\* kind and unit name of each draft
Units(drafts) == [i \in 1..Len(drafts) |-> <<drafts[i].chunk_type, drafts[i].function_name>>]

\* the kind and unit name expected for a definition node
UnitOf(node) ==
    <<IF node.type = "ClassDef" THEN KindClass ELSE KindFunction, Some(node.name)>>

\* the function and class drafts among the drafts returned
DefinitionDrafts == SelectSeq(Drafts, LAMBDA c : c.chunk_type \in {KindFunction, KindClass})

\* C14: for a python text that parses, chunk_file returns exactly one draft
\* for every function-definition node and every class-definition node of the
\* tree at every depth, with the node's kind and name; the text of scenario A
\* gives exactly function foo, class Bar, function baz.
C14_OneChunkPerDefinition ==
    (Parsed /\ Called)
        => /\ ~Get(chunkCall.result).raised
           /\ LET nodes == Definitions(ast_parse(chunkCall.file_content).walk)
              IN  Units(DefinitionDrafts) = [i \in 1..Len(nodes) |-> UnitOf(nodes[i])]
           /\ chunkCall.file_content = ScenarioAText
                => Units(Drafts) = <<<<KindFunction, Some(<<"f","o","o">>)>>,
                                     <<KindClass, Some(<<"B","a","r">>)>>,
                                     <<KindFunction, Some(<<"b","a","z">>)>>>>

\* the nodes the chunker makes drafts of, in walk order
ChunkedNodes ==
    SelectSeq(ast_parse(chunkCall.file_content).walk,
              LAMBDA n : n.type \in {"FunctionDef", "ClassDef"})

\* lines first..last of the text, counted from 1, joined by newlines
LinesFromTo(text, first, last) ==
    LET lines == PySplitOn(text, NL)
    IN  PyJoin(NL, SubSeq(lines, first, IF last < Len(lines) THEN last ELSE Len(lines)))

\* every function or class draft holds the lines of its node, from the
\* node's start line up to and including its end line
SliceIsNodeLines ==
    (Parsed /\ Called /\ ~Get(chunkCall.result).raised)
        => \A i \in 1..Len(DefinitionDrafts) :
                DefinitionDrafts[i].code =
                    LinesFromTo(chunkCall.file_content, ChunkedNodes[i].lineno,
                                Get(ChunkedNodes[i].end_lineno))

\* the slice start _create_function_chunk computes: start_line = node.lineno - 1
start_line(node) == node.lineno - 1

-----------------------------------------------------------------------------
(* vector_store.py search_similar and main.py search_chunks, get_project *)

\* the characters of a text
Chars(text) == {text[i] : i \in 1..Len(text)}

\* the score the index gives a stored vector for a query vector; the cosine
\* similarity of the collection (Distance.COSINE) is represented by the number
\* of characters the two encoded texts share
Score(query_vector, vector) ==
    Cardinality(Chars(query_vector.encode) \cap Chars(vector.encode))

search_filter_none(project_id) == None

\* the query filter built by search_similar: a must-match on payload
\* project_id with str(project_id), or no filter
search_filter(project_id) ==
    IF ~IsNone(project_id) THEN Some(UuidStr(Get(project_id))) ELSE None

\* the points of the collection a query filter lets through
Matching(points, query_filter) ==
    {id \in DOMAIN points :
        IsNone(query_filter) \/ points[id].payload.project_id = Get(query_filter)}

\* a ScoredPoint of the index's answer (with_payload=True, no vectors)
ScoredPoint(points, id, query_vector) ==
    [id      |-> id,
     version |-> 0,
     score   |-> Score(query_vector, points[id].vector),
     payload |-> points[id].payload,
     vector  |-> None]

\* client.search: the answers the index may give: the `limit` best-scoring
\* points among those the filter lets through, by descending score; points of
\* equal score come in any order
client_search(points, query_vector, limit, query_filter) ==
    LET matching == Matching(points, query_filter)
        k        == IF limit < Cardinality(matching) THEN limit ELSE Cardinality(matching)
        sc(id)   == Score(query_vector, points[id].vector)
    IN  {[i \in 1..k |-> ScoredPoint(points, order[i], query_vector)] :
            order \in {o \in [1..k -> matching] :
                        /\ \A i, j \in 1..k : i < j => o[i] # o[j] /\ sc(o[i]) >= sc(o[j])
                        /\ \A id \in matching :
                              (\A i \in 1..k : o[i] # id)
                                  => \A i \in 1..k : sc(o[i]) >= sc(id)}}

format_results_reversed(search_result) ==
    [i \in 1..Len(search_result) |->
        [id      |-> search_result[Len(search_result) + 1 - i].id,
         score   |-> search_result[Len(search_result) + 1 - i].score,
         payload |-> search_result[Len(search_result) + 1 - i].payload]]

\* the loop of search_similar over the index's answer
format_results(search_result) ==
    [i \in 1..Len(search_result) |->
        [id      |-> search_result[i].id,
         score   |-> search_result[i].score,
         payload |-> search_result[i].payload]]

\* the queries, project filters and limits of the search requests
SearchQueries == {<<"b","a","z">>, <<"r","e","t","u","r","n"," ","1">>}

SearchProjects == {None, Some(101), Some(102), Some(103)}

SearchLimits == {1, 5}

\* a read-only request with its parameters
ReadRequest(call) == [IdleRequest EXCEPT !.call = Some(call)]

\* the handler of search_chunks: except Exception as e: raise HTTPException(500, str(e))
search_except(q, detail) ==
    [q EXCEPT !.pc = "answered", !.response = Some(HTTPException(500, detail))]

SearchCall(query, project_id, limit, search_result) ==
    [endpoint      |-> "search",
     query         |-> query,
     project_id    |-> project_id,
     limit         |-> limit,
     search_result |-> search_result]

\* POST /search: search_chunks, with search_similar inlined; search_result
\* (kept in call) is the answer of the index
Search(r) ==
    /\ rq[r].pc \in {"idle", "done"}
    /\ \E query \in SearchQueries, project_id \in SearchProjects, limit \in SearchLimits :
         LET query_embedding == embed_code(query)
             failed          == ReadRequest(SearchCall(query, project_id, limit, <<>>))
         IN  \/ rq' = [rq EXCEPT ![r] = search_except(failed, "embed")]
             \/ rq' = [rq EXCEPT ![r] = search_except(failed, "qdrant")]
             \/ \E search_result \in client_search(vectors, query_embedding.embedding,
                                                   limit, search_filter(project_id)) :
                   LET results == format_results(search_result)
                   IN  rq' = [rq EXCEPT ![r] =
                              [ReadRequest(SearchCall(query, project_id, limit, search_result))
                               EXCEPT
                                 !.pc = "answered",
                                 !.response =
                                     Some([status_code |-> 200, detail |-> "",
                                           body |-> Some([query   |-> query,
                                                          results |-> results,
                                                          total   |-> Len(results)])])]]
    /\ UNCHANGED <<llm_provider, projects, files, disk, chunks, vectors, received,
                   sumCall, chunkCall, endCall, supported_languages>>

\* the identifiers given in the path of GET /projects/{project_id}
PathIds == {UuidStr(101), UuidStr(102), UuidStr(103), "invalid-uuid"}

\* the validation of the path parameter project_id: UUID; None when the text
\* is not a UUID
PathUuid(text) ==
    IF \E u \in ProjectIds : UuidStr(u) = text THEN Some(UuidParse(text)) ELSE None

\* the answer to a request whose parameters do not validate
RequestValidationError == HTTPException(422, "value is not a valid uuid")

\* GET /projects/{project_id}: get_project; an exception of db.get_project is
\* not handled and answered with 500
GetProjectRequest(r) ==
    /\ rq[r].pc \in {"idle", "done"}
    /\ \E text \in PathIds, db_ok \in BOOLEAN :
         LET q          == [ReadRequest([endpoint |-> "get_project", project_id |-> text])
                            EXCEPT !.pc = "answered"]
             project_id == PathUuid(text)
         IN  rq' = [rq EXCEPT ![r] =
                      IF IsNone(project_id)
                      THEN [q EXCEPT !.response = Some(RequestValidationError)]
                      ELSE IF ~db_ok
                      THEN [q EXCEPT !.response = Some(HTTPException(500, "db"))]
                      ELSE IF IsNone(get_project(Get(project_id)))
                      THEN [q EXCEPT !.response = Some(HTTPException(404, "Project not found"))]
                      ELSE [q EXCEPT !.response =
                                Some([status_code |-> 200, detail |-> "",
                                      body |-> Some([project_id |-> Get(get_project(Get(project_id)))])])]]
    /\ UNCHANGED <<llm_provider, projects, files, disk, chunks, vectors, received,
                   sumCall, chunkCall, endCall, supported_languages>>

\* the response of a read-only request has been sent: the slot is free
Release(r) ==
    /\ rq[r].pc = "answered"
    /\ rq' = [rq EXCEPT ![r] = IdleRequest]
    /\ UNCHANGED <<llm_provider, projects, files, disk, chunks, vectors, received,
                   sumCall, chunkCall, endCall, supported_languages>>

\* the steps of process_project that decide what the index holds: every
\* step that succeeds, and the failures of reading, chunking and creating
\* the record; a failure after the record is created ends the chunk with
\* its point absent, as a failed create does, or (link) with its point
\* written
IndexStep(r) ==
    /\ Step(r)
    /\ LET e == Last(rq'[r].events)
       IN  e.ok \/ e.step \in {"read", "chunk", "create"}

NextRead ==
    \/ IndexStep("r1")
    \/ Search("r1")
    \/ GetProjectRequest("r1")
    \/ Release("r1")

SpecRead == Init /\ [][NextRead]_vars


-----------------------------------------------------------------------------
(* properties of the read-only requests, over SpecRead *)

\* slot r holds an answered request of the endpoint
Answered(r, endpoint) ==
    /\ rq[r].pc = "answered"
    /\ Get(rq[r].call).endpoint = endpoint

\* slot r holds a search answered with 200
Searched(r) == Answered(r, "search") /\ Get(rq[r].response).status_code = 200

\* the results of the search held by slot r
Results(r) == Get(Get(rq[r].response).body).results

\* the ids of the vectors whose payload carries the project of the search
\* held by slot r (every vector when the search has no project filter)
MatchingVectors(r) ==
    LET project_id == Get(rq[r].call).project_id
    IN  {id \in DOMAIN vectors :
            IsNone(project_id) \/ vectors[id].payload.project_id = UuidStr(Get(project_id))}

\* C17: a search given a project filter P returns only results whose payload
\* project_id is the stringified P written at upsert; every result is a
\* vector of the index written for P.
C17_SearchStaysInProject ==
    \A r \in Slots :
        (Searched(r) /\ ~IsNone(Get(rq[r].call).project_id))
            => \A i \in 1..Len(Results(r)) :
                  /\ Results(r)[i].payload.project_id = UuidStr(Get(Get(rq[r].call).project_id))
                  /\ Results(r)[i].id \in MatchingVectors(r)
                  /\ Results(r)[i].payload = vectors[Results(r)[i].id].payload

\* both projects have vectors and a search for project 102 with room for all
\* of them returns the vectors of 102 only
C17_Witness ==
    \E r \in Slots :
        /\ Searched(r)
        /\ Get(rq[r].call).project_id = Some(102)
        /\ Get(rq[r].call).limit = 5
        /\ Len(Results(r)) >= 1
        /\ \E id \in DOMAIN vectors : vectors[id].payload.project_id = UuidStr(101)
        /\ Cardinality(DOMAIN vectors) > Len(Results(r))

\* C18: a search returns at most limit results and at most as many as there
\* are matching vectors, in the order of the index's answer (descending
\* score), each result being the id, score and payload of the index's point,
\* none dropped, merged or reordered, and total is the number of results.
C18_SearchAnswerAsIs ==
    \A r \in Slots :
        Searched(r)
            => LET call    == Get(rq[r].call)
                   results == Results(r)
               IN  /\ Len(results) <= call.limit
                   /\ Len(results) <= Cardinality(MatchingVectors(r))
                   /\ Len(results) = Len(call.search_result)
                   /\ \A i \in 1..Len(results) :
                         /\ DOMAIN results[i] = {"id", "score", "payload"}
                         /\ results[i].id = call.search_result[i].id
                         /\ results[i].score = call.search_result[i].score
                         /\ results[i].payload = call.search_result[i].payload
                   /\ \A i, j \in 1..Len(results) :
                         i < j => results[i].score >= results[j].score
                   /\ Get(Get(rq[r].response).body).total = Len(results)

\* scenario D: limit 5 against two matching vectors of different score
C18_Witness ==
    \E r \in Slots :
        /\ Searched(r)
        /\ Get(rq[r].call).limit = 5
        /\ ~IsNone(Get(rq[r].call).project_id)
        /\ Cardinality(MatchingVectors(r)) = 2
        /\ Cardinality(DOMAIN vectors) > 2
        /\ Len(Results(r)) = 2
        /\ Results(r)[1].score > Results(r)[2].score

\* C19: GET /projects/{id} with an identifier for which no Project exists
\* (such as invalid-uuid) is answered with 404, and never with the data of a
\* project, whenever the database answers.
C19_UnknownProjectIs404 ==
    \A r \in Slots :
        (/\ Answered(r, "get_project")
         /\ ~\E u \in projects : UuidStr(u) = Get(rq[r].call).project_id
         /\ Get(rq[r].response).status_code # 500)
            => /\ Get(rq[r].response).status_code = 404
               /\ IsNone(Get(rq[r].response).body)


-----------------------------------------------------------------------------
(* the order of the writes of one chunk, over Spec *)

\* position of a per-chunk step in ChunkSteps, 0 for the other steps
StepIndex(step) ==
    IF \E p \in 1..Len(ChunkSteps) : ChunkSteps[p] = step
    THEN CHOOSE p \in 1..Len(ChunkSteps) : ChunkSteps[p] = step
    ELSE 0

\* in the history of call q every per-chunk step after create directly
\* follows the success of the step before it, for the same chunk
StepsInOrder(q) ==
    \A i \in DOMAIN q.events :
        StepIndex(q.events[i].step) > 1
            => /\ i > 1
               /\ q.events[i - 1].step = ChunkSteps[StepIndex(q.events[i].step) - 1]
               /\ q.events[i - 1].ok
               /\ q.events[i - 1].fi = q.events[i].fi
               /\ q.events[i - 1].ci = q.events[i].ci

\* some call holds the embedding computed for chunk k
EmbeddingComputed(k, vector) ==
    \E r \in Slots :
        /\ ~IsNone(rq[r].chunk) /\ Get(rq[r].chunk).chunk_id = k
        /\ ~IsNone(rq[r].embedding_result)
        /\ Get(rq[r].embedding_result).embedding = vector

\* C20: for every chunk the writes come in the order record created, summary
\* fields written, embedding computed, vector written, vector id set: a
\* record is created bare, the summary is written to an existing record
\* that has no vector, a vector is written only for a record that holds the
\* summary and with the embedding computed before, and the vector id is set
\* only after the vector was written.
C20_WriteOrder ==
    [][/\ \A k \in 1..Len(chunks') :
            /\ k > Len(chunks)
                  => /\ IsNone(chunks'[k].summary)
                     /\ IsNone(chunks'[k].qdrant_id)
                     /\ UuidStr(k) \notin DOMAIN vectors'
            /\ (k <= Len(chunks) /\ IsNone(chunks[k].summary) /\ ~IsNone(chunks'[k].summary))
                  => /\ UuidStr(k) \notin DOMAIN vectors'
                     /\ IsNone(chunks'[k].qdrant_id)
            /\ (UuidStr(k) \notin DOMAIN vectors /\ UuidStr(k) \in DOMAIN vectors')
                  => /\ k <= Len(chunks)
                     /\ ~IsNone(chunks[k].summary)
                     /\ IsNone(chunks'[k].qdrant_id)
                     /\ EmbeddingComputed(k, vectors'[UuidStr(k)].vector)
            /\ (k <= Len(chunks) /\ IsNone(chunks[k].qdrant_id) /\ ~IsNone(chunks'[k].qdrant_id))
                  => UuidStr(k) \in DOMAIN vectors
       /\ \A id \in DOMAIN vectors' : \E k \in 1..Len(chunks') : id = UuidStr(k)
       /\ \A r \in Slots : StepsInOrder(rq'[r])]_vars

\* a chunk between its vector write and its link, after an earlier chunk of
\* the call went through all five writes
C20_Witness ==
    \E r \in Slots :
        /\ rq[r].pc = "link"
        /\ LET k == Get(rq[r].chunk).chunk_id
           IN  /\ ~IsNone(chunks[k].summary)
               /\ UuidStr(k) \in DOMAIN vectors
               /\ IsNone(chunks[k].qdrant_id)
               /\ \E j \in 1..(k - 1) :
                     /\ ~IsNone(chunks[j].qdrant_id)
                     /\ UuidStr(j) \in DOMAIN vectors
                     /\ Did(rq[r], rq[r].fi, rq[r].ci - 1, "link", TRUE)


-----------------------------------------------------------------------------
(* partial enrichment, over Spec *)

\* the step from rq[r] to rq'[r] is the step named step and it ended as ok
StepTaken(r, step, ok) ==
    /\ rq[r].pc = step
    /\ Len(rq'[r].events) = Len(rq[r].events) + 1
    /\ Last(rq'[r].events).step = step
    /\ Last(rq'[r].events).ok = ok

\* no call is between the vector write and the link of chunk k
NotAtLink(k) ==
    \A r \in Slots : ~(rq[r].pc = "link" /\ Get(rq[r].chunk).chunk_id = k)

\* the vector of chunk k is in the index, the record has no vector id and no
\* call is about to set it
Orphaned(k) ==
    /\ k \in DOMAIN chunks
    /\ UuidStr(k) \in DOMAIN vectors
    /\ IsNone(chunks[k].qdrant_id)
    /\ NotAtLink(k)

\* C21: between the vector write and the link the vector is in the index
\* under the chunk's id while the record's vector id is absent; when the
\* link fails that state stays (no store changes), the chunk is not counted,
\* the call goes on with the next chunk (or next file, or its return), and
\* no later step removes the orphaned vector or sets the record's vector id.
C21_OrphanedVectorStays ==
    [][\A r \in Slots :
          /\ rq[r].pc = "link" =>
                LET k == Get(rq[r].chunk).chunk_id
                IN  /\ UuidStr(k) \in DOMAIN vectors
                    /\ IsNone(chunks[k].qdrant_id)
          /\ StepTaken(r, "link", FALSE) =>
                \A k \in {Get(rq[r].chunk).chunk_id} :
                    /\ chunks' = chunks /\ vectors' = vectors
                    /\ Orphaned(k)'
                    /\ rq'[r].processed_chunks = rq[r].processed_chunks
                    /\ rq'[r].total_chunks = rq[r].total_chunks
                    /\ rq'[r] = next_chunk(Logged(rq[r], "link", FALSE, 0, FALSE))
                    /\ IF rq[r].ci < Len(rq[r].drafts)
                       THEN rq'[r].pc = "create" /\ rq'[r].ci = rq[r].ci + 1
                       ELSE IF rq[r].fi < Len(rq[r].files)
                       THEN rq'[r].pc = "read" /\ rq'[r].fi = rq[r].fi + 1
                       ELSE Returned200(rq'[r])
          /\ \A k \in DOMAIN chunks :
                Orphaned(k) => /\ Orphaned(k)'
                               /\ vectors'[UuidStr(k)] = vectors[UuidStr(k)]
      ]_vars

\* the link of the first chunk of a file failed, the next chunk was linked
\* and counted, and the counts were returned with the orphaned vector left
C21_Witness ==
    \E r \in Slots :
        /\ Returned200(rq[r])
        /\ \E fi \in 1..Len(rq[r].files) :
              /\ Did(rq[r], fi, 1, "upsert", TRUE)
              /\ Did(rq[r], fi, 1, "link", FALSE)
              /\ Did(rq[r], fi, 2, "link", TRUE)
        /\ \E k \in DOMAIN chunks : Orphaned(k)
        /\ Counts(rq[r]).processed_chunks = Counts(rq[r]).total_chunks - 1


\* the identity fields and the code of the record are those of the draft
\* the call r is at, with the project of the request
OfCurrentDraft(r, row) ==
    LET draft == rq[r].drafts[rq[r].ci]
    IN  /\ row.project_id = rq[r].project_id
        /\ row.function_name = draft.function_name
        /\ row.file_path = draft.file_path
        /\ row.language = draft.language
        /\ row.chunk_type = draft.chunk_type
        /\ row.code = draft.code
        /\ row.tested = FALSE

\* a record as create_chunk leaves it
Bare(row) ==
    /\ IsNone(row.summary) /\ IsNone(row.combined) /\ IsNone(row.tokens)
    /\ IsNone(row.qdrant_id)

\* a record as update_chunk_summary leaves it
Summarized(row) ==
    /\ ~IsNone(row.summary) /\ ~IsNone(row.combined) /\ ~IsNone(row.tokens)
    /\ IsNone(row.qdrant_id)

\* some call is between the create and the link of chunk k
Held(k) ==
    \E r \in Slots :
        /\ rq[r].pc \in {"summarize", "update_summary", "embed", "upsert", "link"}
        /\ Get(rq[r].chunk).chunk_id = k

\* the call q has a failed per-chunk step in its history
SomeChunkFailed(q) ==
    \E i \in DOMAIN q.events : StepIndex(q.events[i].step) > 0 /\ ~q.events[i].ok

\* C22: a failed step leaves the Chunk record with the fields reached before
\* it: a failed create adds no record; after a failed summarize or summary
\* update the record holds the draft's code and identity fields only; after
\* a failed embedding or vector write it holds summary, combined and tokens,
\* no vector id, and the index has no vector for it; the record of a chunk
\* no call is working on never changes again; and a call that had a failed
\* chunk step returns processed_chunks strictly below total_chunks.
C22_FailedStepKeepsFieldsReached ==
    [][/\ \A r \in Slots :
            /\ StepTaken(r, "create", FALSE) =>
                  chunks' = chunks /\ vectors' = vectors
            /\ (StepTaken(r, "summarize", FALSE) \/ StepTaken(r, "update_summary", FALSE)) =>
                  \A k \in {Get(rq[r].chunk).chunk_id} :
                      /\ chunks' = chunks /\ vectors' = vectors
                      /\ Bare(chunks'[k])
                      /\ OfCurrentDraft(r, chunks'[k])
                      /\ UuidStr(k) \notin DOMAIN vectors'
            /\ (StepTaken(r, "embed", FALSE) \/ StepTaken(r, "upsert", FALSE)) =>
                  \A k \in {Get(rq[r].chunk).chunk_id} :
                      /\ chunks' = chunks /\ vectors' = vectors
                      /\ Summarized(chunks'[k])
                      /\ OfCurrentDraft(r, chunks'[k])
                      /\ UuidStr(k) \notin DOMAIN vectors'
            /\ (Returned200(rq'[r]) /\ SomeChunkFailed(rq'[r])) =>
                  Counts(rq'[r]).processed_chunks < Counts(rq'[r]).total_chunks
       /\ \A k \in DOMAIN chunks :
            ~Held(k) => /\ chunks'[k] = chunks[k]
                        /\ (UuidStr(k) \in DOMAIN vectors') = (UuidStr(k) \in DOMAIN vectors)
      ]_vars

\* after one run whose summary update failed and a second run whose vector
\* write failed: a bare record and a record with summary and without vector,
\* neither being worked on
C22_Witness ==
    \E r \in Slots :
        /\ Returned200(rq[r])
        /\ \E i \in DOMAIN rq[r].events :
              rq[r].events[i].step = "upsert" /\ ~rq[r].events[i].ok
        /\ Counts(rq[r]).processed_chunks < Counts(rq[r]).total_chunks
        /\ \E i, j \in DOMAIN chunks :
              /\ Bare(chunks[i]) /\ UuidStr(i) \notin DOMAIN vectors
              /\ Summarized(chunks[j]) /\ UuidStr(j) \notin DOMAIN vectors


-----------------------------------------------------------------------------
(* the order of the steps of one request, over Spec *)

\* the number of drafts the chunker returned for file fi in the call q
ChunkedN(q, fi) ==
    IF \E i \in DOMAIN q.events :
           q.events[i].step = "chunk" /\ q.events[i].fi = fi /\ q.events[i].ok
    THEN q.events[CHOOSE i \in DOMAIN q.events :
                      q.events[i].step = "chunk" /\ q.events[i].fi = fi /\ q.events[i].ok].n
    ELSE 0

\* the event ends the work on its chunk: a failed chunk step or the link
ChunkEnded(e) == StepIndex(e.step) > 0 /\ (~e.ok \/ e.step = "link")

\* the event ends the work on its file in the call q: a failed read, a
\* failed chunking, no draft at all, or the end of the last draft
FileEnded(q, e) ==
    \/ e.step = "read" /\ ~e.ok
    \/ e.step = "chunk" /\ (~e.ok \/ e.n = 0)
    \/ ChunkEnded(e) /\ e.ci = ChunkedN(q, e.fi)

\* every step of the history of q starts where the loops of process_project
\* allow it: the files 1, 2, ... one after the other, each after the file
\* before it ended; within a file the drafts 1, 2, ... one after the other,
\* each after the draft before it ended; within a draft the six steps
OneAtATime(q) ==
    \A i \in 2..Len(q.events) :
        LET e == q.events[i]
            p == q.events[i - 1]
        IN  CASE e.step = "get_project" -> FALSE
              [] e.step = "get_files" -> p.step = "get_project" /\ p.ok
              [] e.step = "read" ->
                    /\ e.fi = p.fi + 1 /\ e.ci = 0 /\ e.fi <= Len(q.files)
                    /\ \/ p.step = "get_files" /\ p.ok
                       \/ FileEnded(q, p)
              [] e.step = "chunk" -> p.step = "read" /\ p.ok /\ e.fi = p.fi /\ e.ci = 0
              [] e.step = "create" ->
                    /\ e.fi = p.fi /\ e.ci = p.ci + 1 /\ e.ci <= ChunkedN(q, e.fi)
                    /\ \/ p.step = "chunk" /\ p.ok
                       \/ ChunkEnded(p)
              [] OTHER ->
                    /\ p.step = ChunkSteps[StepIndex(e.step) - 1] /\ p.ok
                    /\ e.fi = p.fi /\ e.ci = p.ci

\* C23: one request handles the files one at a time in the order of the file
\* list (the File rows of the project as get_files_by_project returns them)
\* and the drafts of a file one at a time in the order the chunker returned
\* them: no step of draft k+1 before draft k was linked or failed, no step
\* of a later file before the earlier file ended, and the record created at
\* position ci of file fi is the one of the ci-th draft of the fi-th file.
C23_OneAtATimeInOrder ==
    [][\A r \in Slots :
          /\ OneAtATime(rq'[r])
          /\ StepTaken(r, "get_files", TRUE) =>
                rq'[r].files = get_files_by_project(rq[r].project_id)
          /\ rq[r].pc \notin {"idle", "done", "get_files"} => rq'[r].files = rq[r].files
          /\ StepTaken(r, "chunk", TRUE) =>
                LET f == rq[r].files[rq[r].fi]
                IN  rq'[r].drafts =
                        Get(chunk_file(f.file_path,
                                       Get(disk[<<rq[r].project_id, f.file_path>>]),
                                       f.language, UuidStr(rq[r].project_id)).value)
          /\ StepTaken(r, "create", TRUE) =>
                /\ Len(chunks') = Len(chunks) + 1
                /\ OfCurrentDraft(r, chunks'[Len(chunks')])
                /\ chunks'[Len(chunks')].file_path = rq[r].files[rq[r].fi].file_path
                /\ rq'[r].drafts = rq[r].drafts
      ]_vars

\* the second file's third draft is being enriched after the first file
\* ended and the second draft failed
C23_Witness ==
    \E r \in Slots :
        /\ rq[r].fi = 2 /\ rq[r].ci = 3 /\ rq[r].pc = "summarize"
        /\ Did(rq[r], 1, 0, "read", FALSE)
        /\ Did(rq[r], 2, 1, "link", TRUE)
        /\ \E i \in DOMAIN rq[r].events :
              /\ rq[r].events[i].fi = 2 /\ rq[r].events[i].ci = 2
              /\ ~rq[r].events[i].ok


-----------------------------------------------------------------------------
(* running process_project again, over Spec *)

\* no collaborator call of the request q failed (a file that cannot be read
\* or parsed belongs to the project, a fallback summary is a success)
FullySuccessful(q) ==
    \A i \in DOMAIN q.events :
        q.events[i].ok \/ q.events[i].step \in {"read", "chunk"}

\* the number of events of the step with result ok in the history of q
CountOk(q, step) ==
    Cardinality({i \in DOMAIN q.events : q.events[i].step = step /\ q.events[i].ok})

\* the record is the copy of an earlier record: same project, file, unit and code
SameDraft(row, other) ==
    /\ row.project_id = other.project_id
    /\ row.file_path = other.file_path
    /\ row.function_name = other.function_name
    /\ row.chunk_type = other.chunk_type
    /\ row.code = other.code

\* C24: a run on an already processed project skips nothing: every create
\* appends a record with a chunk_id no record has, whether or not a record
\* of the same draft exists, every vector write adds a vector under that new
\* id, nothing is removed or overwritten, and a fully successful run on a
\* project returns total_chunks = processed_chunks = the number of drafts of
\* the project, which are the records and the vectors it has added; so each
\* such run adds as many records and vectors as the first one.
C24_RerunAddsAgain ==
    [][\A r \in Slots :
          /\ StepTaken(r, "create", TRUE) =>
                /\ Len(chunks') = Len(chunks) + 1
                /\ \A i \in 1..Len(chunks) :
                      /\ chunks'[i] = chunks[i]
                      /\ chunks'[Len(chunks')].chunk_id # chunks[i].chunk_id
                /\ UuidStr(chunks'[Len(chunks')].chunk_id) \notin DOMAIN vectors
          /\ StepTaken(r, "upsert", TRUE) =>
                \A k \in {Get(rq[r].chunk).chunk_id} :
                    /\ k = Len(chunks)
                    /\ UuidStr(k) \notin DOMAIN vectors
                    /\ DOMAIN vectors' = DOMAIN vectors \cup {UuidStr(k)}
                    /\ \A id \in DOMAIN vectors : vectors'[id] = vectors[id]
          /\ Len(chunks') >= Len(chunks)
          /\ DOMAIN vectors \subseteq DOMAIN vectors'
          /\ (Returned200(rq'[r]) /\ FullySuccessful(rq'[r])) =>
                LET n == RowsNeeded[rq'[r].project_id]
                IN  /\ Counts(rq'[r]).total_chunks = n
                    /\ Counts(rq'[r]).processed_chunks = n
                    /\ CountOk(rq'[r], "create") = n
                    /\ CountOk(rq'[r], "upsert") = n
                    /\ \A i \in (Len(chunks') - n + 1)..Len(chunks') :
                          /\ chunks'[i].project_id = rq'[r].project_id
                          /\ chunks'[i].qdrant_id = Some(UuidStr(i))
                          /\ UuidStr(i) \in DOMAIN vectors'
      ]_vars

\* the project 102 was processed twice, both runs fully successful: twice
\* the records and vectors of one run, the second record a copy of the first
\* under a new chunk_id, and the second run returned the counts of one run
C24_Witness ==
    \E r \in Slots :
        /\ Returned200(rq[r]) /\ FullySuccessful(rq[r])
        /\ rq[r].project_id = 102
        /\ received = 2
        /\ RowsNeeded[102] = 1
        /\ Len(chunks) = 2 * RowsNeeded[102]
        /\ Cardinality(DOMAIN vectors) = 2 * RowsNeeded[102]
        /\ SameDraft(chunks[2], chunks[1])
        /\ chunks[2].chunk_id # chunks[1].chunk_id
        /\ chunks[1].qdrant_id = Some(UuidStr(1)) /\ chunks[2].qdrant_id = Some(UuidStr(2))
        /\ Counts(rq[r]).total_chunks = 1 /\ Counts(rq[r]).processed_chunks = 1


-----------------------------------------------------------------------------
(* the life of one Chunk record, over Spec *)

\* the columns process_project never writes after the insert
Identity(row) ==
    [chunk_id      |-> row.chunk_id,
     project_id    |-> row.project_id,
     function_name |-> row.function_name,
     file_path     |-> row.file_path,
     language      |-> row.language,
     chunk_type    |-> row.chunk_type,
     code          |-> row.code,
     tested        |-> row.tested]

SummaryFields(row) == <<row.summary, row.combined, row.tokens>>

\* the number of records the request q has created so far
CreatedBy(q) == CountOk(q, "create")

\* C25: after its creation a record changes at most twice, in this order:
\* summary, combined and tokens go together from absent to set, once, and
\* the vector id goes from absent to set, once, and only on a record whose
\* summary is set; chunk_id, project, unit name, path, language, kind, code
\* and the tested flag (false) never change; no record is deleted; and a
\* request changes only records it has created itself, never one of an
\* earlier request.
C25_RecordChangesOnlyForward ==
    [][/\ \A k \in DOMAIN chunks :
            /\ k \in DOMAIN chunks'
            /\ Identity(chunks'[k]) = Identity(chunks[k])
            /\ chunks'[k].tested = FALSE
            /\ SummaryFields(chunks'[k]) # SummaryFields(chunks[k]) =>
                  /\ Bare(chunks[k])
                  /\ Summarized(chunks'[k])
            /\ chunks'[k].qdrant_id # chunks[k].qdrant_id =>
                  /\ Summarized(chunks[k])
                  /\ ~IsNone(chunks'[k].qdrant_id)
                  /\ SummaryFields(chunks'[k]) = SummaryFields(chunks[k])
            /\ ~IsNone(chunks'[k].qdrant_id) => ~IsNone(chunks'[k].summary)
       /\ \A r \in Slots :
            rq'[r] # rq[r] =>
                \A k \in 1..(Len(chunks') - CreatedBy(rq'[r])) :
                    k \in DOMAIN chunks /\ chunks'[k] = chunks[k]
      ]_vars

\* a second run has ended with its own record linked, next to the record
\* the first run left with its summary and without vector id
C25_Witness ==
    \E r \in Slots :
        /\ received = 2
        /\ rq[r].pc = "done"
        /\ CreatedBy(rq[r]) = 1
        /\ Len(chunks) = 2
        /\ Summarized(chunks[1])
        /\ ~IsNone(chunks[2].qdrant_id)


-----------------------------------------------------------------------------
(* db.py: create_file, and the registrations of SpecFiles *)

\* the paths of the model in the order of ORDER BY file_path
PathOrder == <<"a.go", "b.py", "c.py", "m.go", "z.py">>

PathRank(file_path) == CHOOSE i \in 1..Len(PathOrder) : PathOrder[i] = file_path

\* all rows of the files table
FileRows(table) == UNION {{table[p][i] : i \in 1..Len(table[p])} : p \in ProjectIds}

\* gen_random_uuid(): an identifier no row has
fresh_file_id(table) ==
    1 + Cardinality({n \in 1..64 : \E row \in FileRows(table) : row.file_id >= n})

\* the rows of one project with the new row at its place in path order
insert_by_path(rows, row) ==
    LET k == Cardinality({i \in 1..Len(rows) :
                             PathRank(rows[i].file_path) < PathRank(row.file_path)})
    IN  SubSeq(rows, 1, k) \o <<row>> \o SubSeq(rows, k + 1, Len(rows))

\* the row of the table for (project_id, file_path), or None
file_row(table, project_id, file_path) ==
    IF \E i \in 1..Len(table[project_id]) : table[project_id][i].file_path = file_path
    THEN Some(table[project_id][CHOOSE i \in 1..Len(table[project_id]) :
                                    table[project_id][i].file_path = file_path])
    ELSE None

create_file_replacing(table, file_data, now) ==
    LET p   == file_data.project_id
        row == FileRow(fresh_file_id(table), p, file_data.file_path, file_data.language, now)
    IN  IF IsNone(file_row(table, p, file_data.file_path))
        THEN [table EXCEPT ![p] = insert_by_path(@, row)]
        ELSE [table EXCEPT ![p] =
                [i \in 1..Len(@) |->
                    IF @[i].file_path = file_data.file_path THEN row ELSE @[i]]]

\* create_file: INSERT INTO files (project_id, file_path, language) ...
\* ON CONFLICT (project_id, file_path) DO UPDATE SET language = EXCLUDED.language
create_file(table, file_data, now) ==
    LET p   == file_data.project_id
        row == FileRow(fresh_file_id(table), p, file_data.file_path, file_data.language, now)
    IN  IF IsNone(file_row(table, p, file_data.file_path))
        THEN [table EXCEPT ![p] = insert_by_path(@, row)]
        ELSE [table EXCEPT ![p] =
                [i \in 1..Len(@) |->
                    IF @[i].file_path = file_data.file_path
                    THEN [@[i] EXCEPT !.language = file_data.language]
                    ELSE @[i]]]

\* the number of create_file calls of one behaviour
MaxRegistrations == 3

RegisteredPaths == {"b.py", "c.py"}

RegisteredLanguages == {LangPython, LangJavascript}

CreateFileCall(file_data, raised) ==
    [endpoint |-> "create_file", file_data |-> file_data, raised |-> raised]

\* file_record = await db.create_file(file_data); the call raises when the
\* database fails and when the project has no row (foreign key)
RegisterFile(r) ==
    /\ rq[r].pc \in {"idle", "answered"}
    /\ received < MaxRegistrations
    /\ received' = received + 1
    /\ \E project_id \in ProjectIds, file_path \in RegisteredPaths,
          language \in RegisteredLanguages, db_ok \in BOOLEAN :
         LET file_data == [project_id |-> project_id, file_path |-> file_path,
                           language |-> language]
             raised    == ~db_ok \/ project_id \notin projects
             table     == create_file(files, file_data, received')
         IN  IF raised
             THEN /\ files' = files
                  /\ rq' = [rq EXCEPT ![r] =
                              [ReadRequest(CreateFileCall(file_data, TRUE)) EXCEPT
                                  !.pc = "answered"]]
             ELSE /\ files' = table
                  /\ rq' = [rq EXCEPT ![r] =
                              [ReadRequest(CreateFileCall(file_data, FALSE)) EXCEPT
                                  !.pc = "answered",
                                  !.response = Some([status_code |-> 200, detail |-> "",
                                                     body |-> file_row(table, project_id,
                                                                       file_path)])]]
    /\ UNCHANGED <<llm_provider, projects, disk, chunks, vectors, sumCall, chunkCall,
                   endCall, supported_languages>>

NextFiles == RegisterFile("r1")

SpecFiles == Init /\ [][NextFiles]_vars

\* the step is a create_file call that returned
Registered(r) ==
    /\ received' = received + 1
    /\ Answered(r, "create_file")'
    /\ ~Get(rq'[r].call).raised

\* C26: no two File rows share (project_id, file_path); a registration of a
\* path the project already has keeps the row's file_id and created_at,
\* replaces only its language and leaves the number of rows as it is; a
\* registration of a new path adds one row; no other row changes.
C26_OneFileRowPerPath ==
    [][/\ \A a, b \in FileRows(files') :
            (a.project_id = b.project_id /\ a.file_path = b.file_path) => a = b
       /\ \A a, b \in FileRows(files') : a.file_id = b.file_id => a = b
       /\ \A r \in Slots :
            Registered(r) =>
                LET fd  == Get(rq'[r].call).file_data
                    old == file_row(files, fd.project_id, fd.file_path)
                    new == file_row(files', fd.project_id, fd.file_path)
                IN  /\ ~IsNone(new)
                    /\ Get(new).language = fd.language
                    /\ Get(rq'[r].response).body = new
                    /\ ~IsNone(old) =>
                          /\ Get(new).file_id = Get(old).file_id
                          /\ Get(new).created_at = Get(old).created_at
                          /\ Cardinality(FileRows(files')) = Cardinality(FileRows(files))
                          /\ FileRows(files') \ {Get(new)} = FileRows(files) \ {Get(old)}
                    /\ IsNone(old) =>
                          /\ FileRows(files') = FileRows(files) \cup {Get(new)}
                          /\ Get(new) \notin FileRows(files)
                    /\ \A p \in ProjectIds :
                          \A i \in 1..(Len(files'[p]) - 1) :
                              PathRank(files'[p][i].file_path)
                                  < PathRank(files'[p][i + 1].file_path)
       /\ (\A r \in Slots : ~Registered(r)) => files' = files
      ]_vars

\* b.py of project 101, registered at intake as python, was registered again
\* as javascript after c.py was added: same file_id and created_at, three
\* rows for the project
C26_Witness ==
    /\ Answered("r1", "create_file")
    /\ Get(rq["r1"].call).file_data =
          [project_id |-> 101, file_path |-> "b.py", language |-> LangJavascript]
    /\ ~Get(rq["r1"].call).raised
    /\ Len(files[101]) = 3
    /\ files[101][2] = FileRow(2, 101, "b.py", LangJavascript, 0)
    /\ files[101][3].file_path = "c.py"


-----------------------------------------------------------------------------
(* the vector index against the chunks table, over Spec *)

\* the point is the one of the record: same project, and payload fields
\* equal to the columns of the record
PointOfRecord(point, row) ==
    /\ point.id = UuidStr(row.chunk_id)
    /\ point.payload.project_id = UuidStr(row.project_id)
    /\ point.payload.file_path = row.file_path
    /\ point.payload.function_name = row.function_name
    /\ point.payload.language = row.language
    /\ point.payload.chunk_type = row.chunk_type
    /\ point.payload.summary = row.summary
    /\ point.payload.code = row.code
    /\ point.payload.combined = row.combined
    /\ point.payload.tokens = row.tokens
    /\ point.payload.tested = row.tested

\* C27: every vector of the index is stored under the chunk_id of an
\* existing Chunk record of the same project whose summary, combined and
\* tokens are set; its payload (path, unit name, language, kind, summary,
\* code, combined, tokens, tested) equals the columns of that record, and
\* the embedded text is the combined text the record holds.
C27_VectorMatchesRecord ==
    \A id \in DOMAIN vectors :
        \E k \in DOMAIN chunks :
            /\ id = UuidStr(k)
            /\ chunks[k].chunk_id = k
            /\ ~IsNone(chunks[k].summary)
            /\ ~IsNone(chunks[k].combined)
            /\ ~IsNone(chunks[k].tokens)
            /\ PointOfRecord(vectors[id], chunks[k])
            /\ vectors[id].vector = Encode(Get(chunks[k].combined))

\* after a run with a failed link and a second run: a vector of a linked
\* record and a vector of a record without vector id, with different texts
C27_Witness ==
    /\ received = 2
    /\ \E i, j \in DOMAIN chunks :
          /\ UuidStr(i) \in DOMAIN vectors /\ UuidStr(j) \in DOMAIN vectors
          /\ ~IsNone(chunks[i].qdrant_id)
          /\ IsNone(chunks[j].qdrant_id)
          /\ vectors[UuidStr(i)].vector # vectors[UuidStr(j)].vector
    /\ \A r \in Slots : rq[r].pc \in {"idle", "done"}


-----------------------------------------------------------------------------
(* the two counters of one request, over Spec *)

\* the records the request of slot r has created: the last CreatedBy ones,
\* requests being handled one after the other
OwnRecords(r) == (Len(chunks) - CreatedBy(rq[r]) + 1)..Len(chunks)

\* C28: at every point of a request processed_chunks <= total_chunks, no
\* step of the request lowers a counter, and the processed_chunks returned
\* is the number of records created by this request whose vector id is set
\* (the total_chunks returned being the value of the local counter).
C28_Counters ==
    [][\A r \in Slots :
          /\ rq'[r].processed_chunks <= rq'[r].total_chunks
          /\ rq'[r].processed_chunks >= 0
          /\ rq[r].pc \notin {"idle", "done"} =>
                /\ rq'[r].total_chunks >= rq[r].total_chunks
                /\ rq'[r].processed_chunks >= rq[r].processed_chunks
                /\ rq'[r].processed_chunks <= rq[r].processed_chunks + 1
          /\ Returned200(rq'[r]) =>
                /\ Counts(rq'[r]).processed_chunks = rq'[r].processed_chunks
                /\ Counts(rq'[r]).total_chunks = rq'[r].total_chunks
                /\ Counts(rq'[r]).processed_chunks =
                      Cardinality({k \in OwnRecords(r)' : ~IsNone(chunks'[k].qdrant_id)})
      ]_vars

\* a second run returned 0 of 1 (its record is not linked) while the table
\* also holds the linked record of the first run
C28_Witness ==
    \E r \in Slots :
        /\ Returned200(rq[r])
        /\ received = 2
        /\ Counts(rq[r]).processed_chunks = 0
        /\ Counts(rq[r]).total_chunks = 1
        /\ CreatedBy(rq[r]) = 1
        /\ Len(chunks) = 2
        /\ ~IsNone(chunks[1].qdrant_id)


-----------------------------------------------------------------------------
(* two process_project requests at the same time *)

\* the projects requested in each slot: the same project in both slots, or
\* a different one in each
ConcurrentProjects(r) == IF r = "r1" THEN {101, 102} ELSE {102}

\* the records the requests in the slots will have inserted when they end
Reserved(slots) ==
    LET need(r) == IF slots[r].pc = "idle" THEN 0 ELSE RowsNeeded[slots[r].project_id]
    IN  need("r1") + need("r2")

\* the chunks table holds at most MaxConcurrentRows rows when two requests
\* run at the same time
MaxConcurrentRows == 4

\* one collaborator call of the request of slot r returns or raises; each
\* slot takes one request
ConcurrentStep(r) ==
    /\ Step(r)
    /\ rq[r].pc # "done"
    /\ rq[r].pc = "idle" =>
          /\ rq'[r].project_id \in ConcurrentProjects(r)
          /\ Reserved(rq') <= MaxConcurrentRows

NextConcurrent == ConcurrentStep("r1") \/ ConcurrentStep("r2")

SpecConcurrent == Init /\ [][NextConcurrent]_vars

\* the request of slot r is between the create and the link of the record k
\* it has inserted for its current draft
HoldsOwn(r, k) ==
    /\ rq[r].pc \in {"summarize", "update_summary", "embed", "upsert", "link"}
    /\ Get(rq[r].chunk).chunk_id = k
    /\ k \in DOMAIN chunks
    /\ OfCurrentDraft(r, chunks[k])

\* C29: when two requests interleave at their collaborator calls, a record
\* or a vector is only written by the request that inserted the record
\* (the one holding it as its current chunk, which no other request holds),
\* the counts a request returns are those of its own steps (the drafts of
\* its chunked files, and its drafts whose six steps succeeded), and the
\* record invariants hold in every state: summary fields all or none,
\* vector id equal to the own chunk_id, vector id set only with the own
\* vector written, every vector matching its record.
C29_RequestsDoNotInterfere ==
    [][/\ \A r \in Slots :
            /\ StepTaken(r, "create", TRUE) =>
                  /\ Get(rq'[r].chunk).chunk_id = Len(chunks')
                  /\ Len(chunks') = Len(chunks) + 1
                  /\ \A o \in Slots \ {r} :
                        ~IsNone(rq'[o].chunk) =>
                            Get(rq'[o].chunk).chunk_id # Get(rq'[r].chunk).chunk_id
            /\ (rq[r].pc \in {"summarize", "update_summary", "embed", "upsert"}
                /\ Last(rq'[r].events).ok /\ rq'[r] # rq[r]) =>
                  Get(rq'[r].chunk).chunk_id = Get(rq[r].chunk).chunk_id
            /\ rq[r].pc \in {"summarize", "update_summary", "embed", "upsert", "link"} =>
                  HoldsOwn(r, Get(rq[r].chunk).chunk_id)
            /\ Returned200(rq'[r]) =>
                  /\ Counts(rq'[r]).total_chunks = SumChunked(rq'[r].events)
                  /\ Counts(rq'[r]).processed_chunks = Cardinality(FullyProcessed(rq'[r]))
       /\ \A k \in DOMAIN chunks :
            chunks'[k] # chunks[k] =>
                \E r \in Slots : rq'[r] # rq[r] /\ HoldsOwn(r, k)
       /\ \A id \in DOMAIN vectors' :
            (id \notin DOMAIN vectors \/ vectors'[id] # vectors[id]) =>
                \E r \in Slots :
                    /\ rq'[r] # rq[r]
                    /\ rq[r].pc = "upsert"
                    /\ id = UuidStr(Get(rq[r].chunk).chunk_id)
                    /\ HoldsOwn(r, Get(rq[r].chunk).chunk_id)
       /\ DOMAIN vectors \subseteq DOMAIN vectors'
       /\ C6_SummaryFieldsTogether'
       /\ C7_VectorIdIsChunkId'
       /\ C5_SetOnlyIfWritten'
       /\ C27_VectorMatchesRecord'
      ]_vars

\* both requests returned, for different projects, their records alternate
\* in the table (the record of one lies between records of the other), one
\* request linked all its records and the other lost one at the link
C29_Witness ==
    /\ Returned200(rq["r1"]) /\ Returned200(rq["r2"])
    /\ rq["r1"].project_id = 101 /\ rq["r2"].project_id = 102
    /\ Len(chunks) = 4
    /\ chunks[2].project_id = 102
    /\ Counts(rq["r2"]).processed_chunks = 1 /\ Counts(rq["r2"]).total_chunks = 1
    /\ Counts(rq["r1"]).processed_chunks = 2 /\ Counts(rq["r1"]).total_chunks = 3
    /\ ~IsNone(chunks[2].qdrant_id)
    /\ \E k \in {1, 3, 4} : Orphaned(k)


-----------------------------------------------------------------------------
(* termination of one request *)

\* the next call of the request of slot r to the database, the workspace or
\* the vector index returns or raises
ContinueStores(r) ==
    \/ GetFiles(r)
    \/ ReadFile(r)
    \/ CreateChunk(r)
    \/ UpdateSummary(r)
    \/ Upsert(r)
    \/ Link(r)

\* the requests of Spec, every collaborator call of a request in progress
\* returning or raising in the end: weak fairness of each step of the
\* request.  The chunker, the summarizer and the embedder are called at the
\* positions chunk, summarize and embed and at no other, and their steps
\* are enabled there (the reply that is no failure can always be drawn), so
\* their weak fairness is written with the position as enabling condition.
SpecTermination ==
    /\ Init /\ [][Next]_vars
    /\ WF_vars(ContinueStores("r1"))
    /\ ([]<>(rq["r1"].pc # "chunk") \/ []<><<ChunkFile("r1")>>_vars)
    /\ ([]<>(rq["r1"].pc # "summarize") \/ []<><<Summarize("r1")>>_vars)
    /\ ([]<>(rq["r1"].pc # "embed") \/ []<><<Embed("r1")>>_vars)

InProgress(r) == rq[r].pc \notin {"idle", "done"}

\* the request has ended: it returned the counts or an error
Finished(r) ==
    /\ rq[r].pc = "done"
    /\ ~IsNone(rq[r].response)
    /\ \/ Returned200(rq[r])
       \/ Get(rq[r].response).status_code = 500

\* the number of events of the step for file fi and draft ci in the call q
Times(q, fi, ci, step) ==
    Cardinality({i \in DOMAIN q.events :
                    /\ q.events[i].fi = fi /\ q.events[i].ci = ci
                    /\ q.events[i].step = step})

\* the call q returned the counts after one visit of every File row of its
\* project and one attempt of every draft of every chunked file, no step of
\* a draft being made twice
EachOnce(q) ==
    /\ Len(q.files) = Len(files[q.project_id])
    /\ \A fi \in 1..Len(q.files) :
          /\ q.files[fi] = files[q.project_id][fi]
          /\ Times(q, fi, 0, "read") = 1
          /\ Times(q, fi, 0, "chunk") <= 1
          /\ \A ci \in 1..ChunkedN(q, fi) :
                /\ Times(q, fi, ci, "create") = 1
                /\ \A p \in 2..Len(ChunkSteps) : Times(q, fi, ci, ChunkSteps[p]) <= 1
    /\ \A i \in DOMAIN q.events :
          /\ q.events[i].fi <= Len(q.files)
          /\ q.events[i].ci <= ChunkedN(q, q.events[i].fi)
    /\ \A i, j \in DOMAIN q.events :
          (/\ q.events[i].fi = q.events[j].fi /\ q.events[i].ci = q.events[j].ci
           /\ q.events[i].step = q.events[j].step) => i = j

\* C30: when every collaborator call returns or raises in the end, a
\* request in progress finishes, with the counts or with an error; and a
\* request that returned the counts has visited every file of the project's
\* file list exactly once and attempted every draft of every chunked file
\* exactly once, no failed step being tried again.
C30_RequestFinishes ==
    /\ \A r \in {"r1"} : InProgress(r) ~> Finished(r)
    /\ [](\A r \in Slots : Returned200(rq[r]) => EachOnce(rq[r]))

\* the request returned the counts after the first file could not be read
\* and the first draft of the second file failed at its first step
C30_Witness ==
    \E r \in Slots :
        /\ Finished(r) /\ Returned200(rq[r])
        /\ Times(rq[r], 1, 0, "read") = 1 /\ Did(rq[r], 1, 0, "read", FALSE)
        /\ Did(rq[r], 2, 1, "create", FALSE)
        /\ Times(rq[r], 2, 1, "create") = 1
        /\ Times(rq[r], 2, 3, "link") = 1
        /\ Len(rq[r].events) = 18

====
